---- MODULE Spec2Model ----
(***************************************************************************)
(* Ingest-and-release engine of the DP DAU/MAU counter: the activity and   *)
(* erasure ledger, the day-snapshot cache of the window manager, the       *)
(* hashing layer and the privacy accountant, driven through the            *)
(* PipelineManager API.                                                    *)
(*                                                                         *)
(* Budget quantities (epsilon, caps) are integers counted in units of the  *)
(* gate tolerance 1e-9; delta is counted in units of 1e-6.  Days are       *)
(* proleptic Gregorian ordinals (date.toordinal()); an ISO day string is   *)
(* the triple <<year, month, day>>.  The sketch backend is the exact set   *)
(* backend: a sketch is the set of keys it holds.                          *)
(***************************************************************************)
EXTENDS Integers, Sequences, FiniteSets, Bags, TLC

\* ---------------------------------------------------------------- bounds
\* days events and releases range over, in the ledger scope and the budget scope
NumDays == 2
NumBudgetDays == 3
\* rows the activity log may hold, in the ledger scope and the budget scope
MaxEvents == 2
MaxBudgetEvents == 1
\* rows the activity log may hold in the duplicate scope
MaxDupEvents == 3
\* rows the activity log may hold in the interleaving scope
MaxRaceEvents == 2
\* largest explicit window_days argument
MaxWindow == 2
\* events per ingest_batch call
MaxBatch == 2
\* largest explicit window_days argument in the loop scope, and the days
\* releases are asked for there
MaxLoopWindow == 3
NumLoopDays == 1
\* the accountant scope: days of the releases, activity rows, rdp_releases rows
NumAcctDays == 2
MaxAcctEvents == 1
MaxRdpRows == 1
\* keys the sketches of the sketch scope are fed
NumSketchKeys == 3
\* rows of the rdp_releases table and the largest order in the RDP scope
MaxRdpPoints == 4
MaxOrder == 3
\* days releases are asked for in the gate scope
NumGateDays == 2
\* keys of the KMV scope
NumKmvKeys == 4

\* -------------------------------------------------------------- calendar
\* date(2025, 10, 1).toordinal() = 739525, date(2025, 11, 1).toordinal() = 739556
\* ledger scope: 2025-10-30 onwards, days of one month and one 30-day rotation epoch
Days == 739554 .. (739554 + NumDays - 1)
\* budget scope: 2025-10-31 onwards, days on both sides of a month boundary
BudgetDays == 739555 .. (739555 + NumBudgetDays - 1)

\* date.isoformat(), for the ordinals of October and November 2025
IsoFormat(d) ==
    IF d < 739556 THEN <<2025, 10, d - 739525 + 1>> ELSE <<2025, 11, d - 739556 + 1>>

\* windows.parse_day: date.fromisoformat
parse_day(s) ==
    IF s[2] = 10 THEN 739525 + s[3] - 1 ELSE 739556 + s[3] - 1

\* privacy_accountant.month_key: day.strftime("%Y-%m")
month_key(d) == <<IsoFormat(d)[1], IsoFormat(d)[2]>>

Users == {"alice", "bob"}
Metrics == {"dau", "mau"}

\* the gate tolerance 1e-9, in units of 1e-9
Tolerance == 1
\* delta = 1.0, in units of 1e-6
DeltaOne == 1000000
\* DPSettings.w_bound and DPSettings.default_seed (defaults)
w_bound == 2
default_seed == 20251009

\* settings of the ledger scope: one release per metric and month, Gaussian MAU
LedgerConfigs ==
    { [epsilon_dau |-> 3, dau_budget_total |-> 3, epsilon_mau |-> 5,
       mau_budget_total |-> 5, delta |-> 1,
       hash_salt_rotation_days |-> 30, mau_window_days |-> 2] }

\* settings of the budget scope: cap == epsilon; epsilon and cap within the gate
\* tolerance (DAU) and a cap one tolerance short of epsilon (MAU, Laplace);
\* parameters the noise mechanisms reject; an epsilon no cap admits (DAU)
BudgetConfigs ==
    { [epsilon_dau |-> 3, dau_budget_total |-> 3, epsilon_mau |-> 5,
       mau_budget_total |-> 5, delta |-> 1,
       hash_salt_rotation_days |-> 30, mau_window_days |-> 2],
      [epsilon_dau |-> 1, dau_budget_total |-> 1, epsilon_mau |-> 5,
       mau_budget_total |-> 4, delta |-> 0,
       hash_salt_rotation_days |-> 1, mau_window_days |-> 1],
      [epsilon_dau |-> 0, dau_budget_total |-> 3, epsilon_mau |-> 5,
       mau_budget_total |-> 5, delta |-> DeltaOne,
       hash_salt_rotation_days |-> 2, mau_window_days |-> 2],
      [epsilon_dau |-> 5, dau_budget_total |-> 3, epsilon_mau |-> 5,
       mau_budget_total |-> 5, delta |-> 1,
       hash_salt_rotation_days |-> 30, mau_window_days |-> 2] }

\* threads: where each of two threads stands inside the call it is making, with
\* the call's local variables (the interleaving scope; idle in the other scopes)
VARIABLES config, activity_log, erasure_log, snapshots, releases, result, threads

\* the rdp_releases table of the accountant (written by log_rdp_points, which
\* no PipelineManager method calls: empty outside the accountant scope)
VARIABLE rdp_releases

\* sketch objects held outside the pipeline, by name (the sketch scope; none
\* in the other scopes)
VARIABLE sketches

vars == <<config, activity_log, erasure_log, snapshots, releases, result, threads,
          rdp_releases, sketches>>

\* ----------------------------------------------------------------- helpers
Range(s) == {s[i] : i \in DOMAIN s}

Max(a, b) == IF a >= b THEN a ELSE b

RECURSIVE SortedDays(_)
\* a set of ISO day strings as the ascending list SQL's ORDER BY day ASC yields
SortedDays(S) ==
    IF S = {} THEN <<>>
    ELSE LET m == CHOOSE x \in S : \A y \in S : parse_day(x) <= parse_day(y)
         IN <<m>> \o SortedDays(S \ {m})

\* ----------------------------------------------------------------- hashing
\* SaltManager.salt_for_day: HMAC(secret, f"{day.isoformat()}::{rotation_epoch}"),
\* HMAC taken as injective on its message
salt_for_day(day, rotation_days) ==
    [iso |-> IsoFormat(day), rotation_epoch |-> day \div Max(rotation_days, 1)]

\* hash_user_id: HMAC(salt_for_day(day), user_id)
hash_user_id(user_id, day, cfg) ==
    [salt |-> salt_for_day(day, cfg.hash_salt_rotation_days), uid |-> user_id]

\* hash_user_root: HMAC(secret, user_id)
hash_user_root(user_id) == [root |-> user_id]


\* variant: the day's rows newest first (ORDER BY id DESC)
fetch_day_events_desc(log, day_str) ==
    LET rows == SelectSeq(log, LAMBDA r : r.day = day_str)
        n == Len(rows)
    IN [i \in DOMAIN rows |-> <<rows[n + 1 - i].op, rows[n + 1 - i].user_key>>]

\* ------------------------------------------------------------------ ledger
\* Ledger.fetch_day_events: (op, user_key) of the day's rows, ORDER BY id ASC
fetch_day_events(log, day_str) ==
    LET rows == SelectSeq(log, LAMBDA r : r.day = day_str)
    IN [i \in DOMAIN rows |-> <<rows[i].op, rows[i].user_key>>]

\* Ledger.days_for_user: SELECT DISTINCT day ... ORDER BY day ASC
days_for_user(log, user_root) ==
    SortedDays({log[i].day : i \in {j \in DOMAIN log : log[j].user_root = user_root}})

\* Ledger.pending_erasures: the ErasureEntry list of the rows with pending = 1,
\* ORDER BY id ASC (the id of a row is its position in the table)
pending_erasures_rows(elog) ==
    SelectSeq([i \in DOMAIN elog |->
                  [erasure_id |-> i, user_root |-> elog[i].user_root,
                   days |-> elog[i].days, pending |-> elog[i].pending]],
              LAMBDA r : r.pending)

\* the ids of the entries Ledger.pending_erasures returns
pending_erasures(elog) == {r.erasure_id : r \in Range(pending_erasures_rows(elog))}


\* variant: the dirty bit is never set
mark_dirty_noop(snaps, day_str) == snaps

\* ---------------------------------------------------------- window manager
\* WindowManager.mark_dirty
mark_dirty(snaps, day_str) ==
    IF day_str \in DOMAIN snaps
    THEN [snaps EXCEPT ![day_str].dirty = TRUE]
    ELSE snaps

\* history: the cached snapshots of the days a '-' event names were built
\* before that event
mark_stale(snaps, days) ==
    [d \in DOMAIN snaps |->
        IF d \in Range(days) THEN [snaps[d] EXCEPT !.stale = TRUE] ELSE snaps[d]]

RECURSIVE MarkDirtyAll(_, _)
\* the loops "for day in days: mark_dirty(day)"
MarkDirtyAll(snaps, days) ==
    IF days = <<>> THEN snaps
    ELSE MarkDirtyAll(mark_dirty(snaps, Head(days)), Tail(days))

RECURSIVE FoldEvents_minus_adds(_, _)
\* variant: '-' adds the key as '+' does
FoldEvents_minus_adds(events, active) ==
    IF events = <<>> THEN active
    ELSE FoldEvents_minus_adds(Tail(events),
                               IF Head(events)[1] \in {"+", "-"}
                               THEN active \cup {Head(events)[2]}
                               ELSE active)

RECURSIVE FoldEvents_toggle(_, _)
\* variant: a '+' for a key that is already active removes it
FoldEvents_toggle(events, active) ==
    IF events = <<>> THEN active
    ELSE LET op == Head(events)[1]
             key == Head(events)[2]
         IN FoldEvents_toggle(Tail(events),
                              IF op = "+" /\ key \notin active THEN active \cup {key}
                              ELSE IF op \in {"+", "-"} THEN active \ {key}
                              ELSE active)

RECURSIVE FoldEvents(_, _)
\* the fold of _build_snapshot: '+' adds the key, '-' discards it
FoldEvents(events, active) ==
    IF events = <<>> THEN active
    ELSE LET op == Head(events)[1]
             key == Head(events)[2]
         IN FoldEvents(Tail(events),
                       IF op = "+" THEN active \cup {key}
                       ELSE IF op = "-" THEN active \ {key}
                       ELSE active)

\* variant: every key with a '+' row is kept, '-' rows are ignored
_build_snapshot_plus_only(log, day_str) ==
    LET events == fetch_day_events(log, day_str)
        active == {events[i][2] : i \in {j \in DOMAIN events : events[j][1] = "+"}}
    IN [sketch |-> active, keys |-> active, dirty |-> FALSE, stale |-> FALSE]

\* WindowManager._build_snapshot.  stale is a history flag, not a field of
\* DaySnapshot: FALSE when the snapshot is built from the ledger, set by
\* mark_stale when a later '-' event names the day
_build_snapshot(log, day_str) ==
    LET active == FoldEvents(fetch_day_events(log, day_str), {})
    IN [sketch |-> active, keys |-> active, dirty |-> FALSE, stale |-> FALSE]

\* WindowManager.get_snapshot: the cache after the call
get_snapshot(snaps, log, day_str) ==
    IF day_str \notin DOMAIN snaps \/ snaps[day_str].dirty
    THEN [d \in DOMAIN snaps \cup {day_str} |->
             IF d = day_str THEN _build_snapshot(log, day_str) ELSE snaps[d]]
    ELSE snaps

RECURSIVE get_mau_loop_overwrite(_, _, _, _, _)
\* variant: each day's sketch replaces the union instead of being merged into it
get_mau_loop_overwrite(snaps, log, day, end, union) ==
    IF day <= end
    THEN LET snaps1 == get_snapshot(snaps, log, IsoFormat(day))
         IN get_mau_loop_overwrite(snaps1, log, day + 1, end,
                                   snaps1[IsoFormat(day)].sketch)
    ELSE [snapshots |-> snaps, union |-> union]

RECURSIVE get_mau_loop(_, _, _, _, _)
\* the while loop of WindowManager.get_mau: (cache, union sketch) after it
get_mau_loop(snaps, log, day, end, union) ==
    IF day <= end
    THEN LET snaps1 == get_snapshot(snaps, log, IsoFormat(day))
         IN get_mau_loop(snaps1, log, day + 1, end,
                         union \cup snaps1[IsoFormat(day)].sketch)
    ELSE [snapshots |-> snaps, union |-> union]

\* variant: the window starts one day early (end - window_days)
get_mau_off_by_one(snaps, log, end_day_str, window_days) ==
    LET end == parse_day(end_day_str)
        start == end - window_days
    IN get_mau_loop(snaps, log, start, end, {})

\* variant: no fresh union sketch; the cached sketch of the window's first day
\* is the union and the other days are merged into it in place
get_mau_in_place(snaps, log, end_day_str, window_days) ==
    LET end == parse_day(end_day_str)
        start == end - (window_days - 1)
        m == get_mau_loop(snaps, log, start, end, {})
    IN [snapshots |-> [d \in DOMAIN m.snapshots |->
                          IF d = IsoFormat(start)
                          THEN [m.snapshots[d] EXCEPT !.sketch = m.union]
                          ELSE m.snapshots[d]],
        union |-> m.union]

\* WindowManager.get_mau
get_mau(snaps, log, end_day_str, window_days) ==
    LET end == parse_day(end_day_str)
        start == end - (window_days - 1)
    IN get_mau_loop(snaps, log, start, end, {})

\* -------------------------------------------------------------- accountant
\* The releases table is a bag of rows (metric, day, period, epsilon, delta,
\* mechanism): the accountant's queries aggregate over it.

RECURSIVE SumEpsilon(_, _)
\* SELECT COALESCE(SUM(epsilon), 0) over the rows in S
SumEpsilon(rel, S) ==
    IF S = {} THEN 0
    ELSE LET r == CHOOSE x \in S : TRUE
         IN r.epsilon * CopiesIn(r, rel) + SumEpsilon(rel, S \ {r})

\* the query of PrivacyAccountant.spent_budget, for a period
spent_period(rel, metric, period) ==
    SumEpsilon(rel, {r \in BagToSet(rel) : r.metric = metric /\ r.period = period})

\* PrivacyAccountant.spent_budget
spent_budget(rel, metric, day) == spent_period(rel, metric, month_key(day))


\* variant: the gate admits every release
can_release_nogate(rel, metric, epsilon, day, cap) == TRUE

\* variant: the gate without its tolerance edge (strict comparison)
can_release_strict(rel, metric, epsilon, day, cap) ==
    spent_budget(rel, metric, day) + epsilon < cap + Tolerance

\* PrivacyAccountant.can_release
can_release(rel, metric, epsilon, day, cap) ==
    spent_budget(rel, metric, day) + epsilon <= cap + Tolerance

\* variant: the difference is returned without the clamp at 0
remaining_budget_no_clamp(rel, metric, day, cap) ==
    cap - spent_budget(rel, metric, day)

\* PrivacyAccountant.remaining_budget
remaining_budget(rel, metric, day, cap) ==
    Max(0, cap - spent_budget(rel, metric, day))

\* variant: the row is charged to the month of the day before the release day
record_release_prev_day(rel, metric, day, epsilon, delta, mechanism) ==
    rel (+) SetToBag({[metric |-> metric, day |-> IsoFormat(day),
                       period |-> month_key(day - 1), epsilon |-> epsilon,
                       delta |-> delta, mechanism |-> mechanism]})

\* PrivacyAccountant.record_release
record_release(rel, metric, day, epsilon, delta, mechanism) ==
    rel (+) SetToBag({[metric |-> metric, day |-> IsoFormat(day),
                       period |-> month_key(day), epsilon |-> epsilon,
                       delta |-> delta, mechanism |-> mechanism]})

\* variant: the DELETE compares the month with the day column and removes nothing
reset_month_no_match(rel, metric, month) == rel

\* PrivacyAccountant.reset_month
reset_month(rel, metric, month) ==
    LET keep == {r \in BagToSet(rel) : ~(r.metric = metric /\ r.period = month)}
    IN [r \in keep |-> rel[r]]

\* variant: the second DELETE selects by period only
reset_month_rdp_any_metric(rdp, metric, month) ==
    LET keep == {r \in BagToSet(rdp) : r.period # month}
    IN [r \in keep |-> rdp[r]]

\* the second DELETE of PrivacyAccountant.reset_month, on the rdp_releases table
reset_month_rdp(rdp, metric, month) ==
    LET keep == {r \in BagToSet(rdp) : ~(r.metric = metric /\ r.period = month)}
    IN [r \in keep |-> rdp[r]]

\* PrivacyAccountant.monthly_release_count: COUNT(*) of the metric's rows of the month
monthly_release_count(rel, metric, day) ==
    BagCardinality([r \in {x \in BagToSet(rel) :
                              x.metric = metric /\ x.period = month_key(day)} |-> rel[r]])

\* the rdp_releases row of one point
RdpRow(metric, day, order, eps) ==
    [metric |-> metric, day |-> IsoFormat(day), period |-> month_key(day),
     alpha |-> order, epsilon |-> eps]

\* variant: each point is inserted as it is checked, so the points before the
\* first rejected one (ascending order) stay in the table
log_rdp_points_partial(rdp, metric, day, rdp_points) ==
    LET bad == {a \in DOMAIN rdp_points : a <= 1 \/ rdp_points[a] < 0}
        kept == {a \in DOMAIN rdp_points : \A b \in bad : a < b}
    IN [status |-> IF bad # {} THEN "ValueError" ELSE "ok",
        rdp_releases |-> rdp (+) SetToBag({RdpRow(metric, day, a, rdp_points[a]) :
                                             a \in kept})]

\* PrivacyAccountant.log_rdp_points: rdp_points maps order to epsilon; every
\* point is checked before anything is written (the first bad one raises);
\* then one row per point is inserted (none for an empty mapping)
log_rdp_points(rdp, metric, day, rdp_points) ==
    IF \E a \in DOMAIN rdp_points : a <= 1 \/ rdp_points[a] < 0
    THEN [status |-> "ValueError", rdp_releases |-> rdp]
    ELSE [status |-> "ok",
          rdp_releases |-> rdp (+) SetToBag({RdpRow(metric, day, a, rdp_points[a]) :
                                               a \in DOMAIN rdp_points})]

\* PrivacyAccountant.log_rdp: log_rdp_points with the one point {order: rdp_value}
log_rdp(rdp, metric, day, order, rdp_value) ==
    log_rdp_points(rdp, metric, day, [a \in {order} |-> rdp_value])

\* PrivacyAccountant.spent_rdp: SUM(epsilon) GROUP BY alpha over the metric's
\* rows of the month, with 0 for every configured order that has no row
spent_rdp(rdp, metric, day, orders) ==
    LET rows == {r \in BagToSet(rdp) : r.metric = metric /\ r.period = month_key(day)}
    IN [a \in {r.alpha : r \in rows} \cup orders |->
           SumEpsilon(rdp, {r \in rows : r.alpha = a})]

\* no value: Python's None
None == [none |-> TRUE]

\* PrivacyAccountant._best_from_curve: None unless 0 < delta < 1; otherwise the
\* least rdp_value + ln(1 / delta) / (order - 1) over the orders above 1, kept
\* as the term (rdp_value, delta, order).  Curves of the model hold one order.
_best_from_curve(delta, rdp_points) ==
    LET above == {a \in DOMAIN rdp_points : a > 1}
    IN IF delta <= 0 \/ delta >= DeltaOne \/ above = {} THEN None
       ELSE LET a == CHOOSE x \in above : \A y \in above : x <= y
            IN [rdp_value |-> rdp_points[a], delta |-> delta, order |-> a]

\* PrivacyAccountant.budget_snapshot (without the advanced-composition fields):
\* the RDP epsilon is reported as spent when delta > 0 and a curve exists,
\* the naive sum otherwise; a remaining budget under RDP is the term cap - best
budget_snapshot(rel, rdp, metric, day, cap, delta, orders) ==
    LET spent_naive == spent_budget(rel, metric, day)
        rdp_totals == spent_rdp(rdp, metric, day, orders)
        best == _best_from_curve(delta, rdp_totals)
        using_rdp == delta > 0 /\ best # None
    IN [metric |-> metric, day |-> IsoFormat(day), period |-> month_key(day),
        epsilon_cap |-> cap,
        epsilon_spent |-> IF using_rdp THEN best ELSE spent_naive,
        epsilon_remaining |-> IF using_rdp THEN [cap |-> cap, minus |-> best]
                              ELSE Max(0, cap - spent_naive),
        delta |-> delta, best_rdp_epsilon |-> best, rdp_curve |-> rdp_totals,
        release_count |-> monthly_release_count(rel, metric, day),
        composition |-> IF using_rdp THEN "rdp" ELSE "naive"]

\* -------------------------------------------------------------- mechanisms
\* laplace_mechanism: the parameter check
laplace_ok(epsilon) == ~(epsilon <= 0)

\* gaussian_mechanism: the parameter check
gaussian_ok(epsilon, delta) == ~(epsilon <= 0 \/ delta <= 0 \/ delta >= DeltaOne)

\* _seed_for: sha256 of f"{metric}:{day.isoformat()}:{default_seed}", taken as
\* injective on its message
_seed_for(metric, day, seed0) ==
    [metric |-> metric, day |-> IsoFormat(day), default_seed |-> seed0]

\* random.Random(seed): a generator of its own that has produced no output yet
Random(seed) == [seed |-> seed, drawn |-> 0]

\* the next output of a generator: fixed by its seed and the outputs drawn before
NextDraw(rng) == [seed |-> rng.seed, index |-> rng.drawn + 1]

\* the result of a mechanism that raised ValueError
Raised == [raised |-> TRUE]

\* laplace_mechanism: value + sample_laplace(sensitivity / epsilon, rng), and the
\* interval noisy -/+ scale * ln(alpha / 2); the real numbers are kept as terms
laplace_mechanism(value, sensitivity, epsilon, rng) ==
    IF ~laplace_ok(epsilon) THEN Raised
    ELSE LET scale == [sensitivity |-> sensitivity, epsilon |-> epsilon]
             noisy_value == [value |-> value, dist |-> "laplace", scale |-> scale,
                             sample |-> NextDraw(rng)]
         IN [raised |-> FALSE, mechanism |-> "laplace", epsilon |-> epsilon, delta |-> 0,
             noisy_value |-> noisy_value,
             confidence_interval |->
                 <<[center |-> noisy_value, side |-> "lower", z |-> scale],
                   [center |-> noisy_value, side |-> "upper", z |-> scale]>>]

\* gaussian_mechanism: value + rng.gauss(0, sigma) with sigma from delta,
\* sensitivity and epsilon, and the interval noisy -/+ z * sigma
gaussian_mechanism(value, sensitivity, epsilon, delta, rng) ==
    IF ~gaussian_ok(epsilon, delta) THEN Raised
    ELSE LET sigma == [delta |-> delta, sensitivity |-> sensitivity, epsilon |-> epsilon]
             noisy_value == [value |-> value, dist |-> "gaussian", scale |-> sigma,
                             sample |-> NextDraw(rng)]
         IN [raised |-> FALSE, mechanism |-> "gaussian", epsilon |-> epsilon,
             delta |-> delta, noisy_value |-> noisy_value,
             confidence_interval |->
                 <<[center |-> noisy_value, side |-> "lower", z |-> sigma],
                   [center |-> noisy_value, side |-> "upper", z |-> sigma]>>]

\* ---------------------------------------------------------------- pipeline
EpsilonOf(cfg, metric) == IF metric = "dau" THEN cfg.epsilon_dau ELSE cfg.epsilon_mau
DeltaOf(cfg, metric) == IF metric = "mau" THEN cfg.delta ELSE 0
CapOf(cfg, metric) == IF metric = "dau" THEN cfg.dau_budget_total ELSE cfg.mau_budget_total

\* no noisy value: the call raised
NoNoise == [raised |-> TRUE]

\* the exception object a call raised: its class and its args tuple (the
\* message a ValueError of a mechanism carries is left out)
NoError == [type |-> "none", args |-> <<>>]

\* BudgetExceeded(f"{metric} budget exhausted for {day.isoformat()}"): a plain
\* Exception subclass built from one message string, kept as its pieces
BudgetExceeded(metric, day) ==
    [type |-> "BudgetExceeded",
     args |-> << <<metric, " budget exhausted for ", IsoFormat(day)>> >>]

Failed(status, rel) ==
    [status |-> status, releases |-> rel, mechanism |-> "none", epsilon |-> 0, delta |-> 0,
     noisy_value |-> NoNoise, confidence_interval |-> <<NoNoise, NoNoise>>,
     error |-> [type |-> status, args |-> <<>>]]

\* the raise of _release when the gate refuses
Exceeded(rel, metric, day) ==
    [Failed("BudgetExceeded", rel) EXCEPT !.error = BudgetExceeded(metric, day)]

\* variant: the Laplace mechanism whatever delta is
run_mechanism_laplace_only(value, sensitivity, epsilon, delta, rng) ==
    laplace_mechanism(value, sensitivity, epsilon, rng)

\* the call of the mechanism in _release: Gaussian when delta > 0, else Laplace
run_mechanism(value, sensitivity, epsilon, delta, rng) ==
    IF delta > 0
    THEN gaussian_mechanism(value, sensitivity, epsilon, delta, rng)
    ELSE laplace_mechanism(value, sensitivity, epsilon, rng)

\* variant: the row is recorded right after the gate, before the mechanism runs
_release_record_first(cfg, rel, metric, day, base_value, sensitivity) ==
    LET epsilon == EpsilonOf(cfg, metric)
        delta == DeltaOf(cfg, metric)
        cap == CapOf(cfg, metric)
        rel1 == record_release(rel, metric, day, epsilon, delta,
                               IF delta > 0 THEN "gaussian" ELSE "laplace")
        res == run_mechanism(base_value, sensitivity, epsilon, delta,
                             Random(_seed_for(metric, day, default_seed)))
    IN IF ~can_release(rel, metric, epsilon, day, cap)
       THEN Exceeded(rel, metric, day)
       ELSE IF res.raised THEN Failed("ValueError", rel1)
       ELSE [status |-> "ok", releases |-> rel1,
             mechanism |-> res.mechanism, epsilon |-> res.epsilon, delta |-> res.delta,
             noisy_value |-> res.noisy_value,
             confidence_interval |-> res.confidence_interval]

\* variant: the generator is kept across releases, advanced by each earlier one
_release_shared_rng(cfg, rel, metric, day, base_value, sensitivity) ==
    LET epsilon == EpsilonOf(cfg, metric)
        delta == DeltaOf(cfg, metric)
        cap == CapOf(cfg, metric)
        rng == [seed |-> _seed_for(metric, day, default_seed),
                drawn |-> BagCardinality(rel)]
        res == run_mechanism(base_value, sensitivity, epsilon, delta, rng)
    IN IF ~can_release(rel, metric, epsilon, day, cap)
       THEN Exceeded(rel, metric, day)
       ELSE IF res.raised THEN Failed("ValueError", rel)
       ELSE [status |-> "ok",
             releases |-> record_release(rel, metric, day, epsilon, delta, res.mechanism),
             mechanism |-> res.mechanism, epsilon |-> res.epsilon, delta |-> res.delta,
             noisy_value |-> res.noisy_value,
             confidence_interval |-> res.confidence_interval]

\* PipelineManager._release: outcome and the releases table after it
_release(cfg, rel, metric, day, base_value, sensitivity) ==
    LET epsilon == EpsilonOf(cfg, metric)
        delta == DeltaOf(cfg, metric)
        cap == CapOf(cfg, metric)
        seed == _seed_for(metric, day, default_seed)
        rng == Random(seed)
        res == run_mechanism(base_value, sensitivity, epsilon, delta, rng)
    IN IF ~can_release(rel, metric, epsilon, day, cap)
       THEN Exceeded(rel, metric, day)
       ELSE IF res.raised THEN Failed("ValueError", rel)
       ELSE [status |-> "ok",
             releases |-> record_release(rel, metric, day, epsilon, delta, res.mechanism),
             mechanism |-> res.mechanism, epsilon |-> res.epsilon, delta |-> res.delta,
             noisy_value |-> res.noisy_value,
             confidence_interval |-> res.confidence_interval]

\* variant: the days are dirtied but the erasures stay pending
replay_deletions_keep(elog, snaps) ==
    LET pend == pending_erasures(elog)
        alldays == UNION {Range(elog[i].days) : i \in pend}
    IN [erasure_log |-> elog,
        snapshots |-> MarkDirtyAll(snaps, SortedDays(alldays))]

\* variant: only the oldest pending erasure is replayed per call
replay_deletions_oldest_only(elog, snaps) ==
    LET rows == pending_erasures_rows(elog)
        pend == IF rows = <<>> THEN {} ELSE {rows[1].erasure_id}
        alldays == UNION {Range(elog[i].days) : i \in pend}
    IN [erasure_log |-> [i \in DOMAIN elog |->
                            IF i \in pend THEN [elog[i] EXCEPT !.pending = FALSE]
                            ELSE elog[i]],
        snapshots |-> MarkDirtyAll(snaps, SortedDays(alldays))]

\* PipelineManager.replay_deletions on (erasure log, cache)
replay_deletions(elog, snaps) ==
    LET pend == pending_erasures(elog)
        alldays == UNION {Range(elog[i].days) : i \in pend}
    IN [erasure_log |-> [i \in DOMAIN elog |->
                            IF i \in pend THEN [elog[i] EXCEPT !.pending = FALSE]
                            ELSE elog[i]],
        snapshots |-> MarkDirtyAll(snaps, SortedDays(alldays))]

\* variant: without metadata.days the erasure names the event's own day only
ingest_event_no_fallback(cfg, st, e) ==
    LET day_str == IsoFormat(e.day)
        user_key == hash_user_id(e.user_id, e.day, cfg)
        user_root == hash_user_root(e.user_id)
        log1 == Append(st.activity_log,
                       [day |-> day_str, user_key |-> user_key,
                        user_root |-> user_root, op |-> e.op])
        snaps1 == mark_dirty(st.snapshots, day_str)
    IN IF e.op = "-"
       THEN LET days == IF day_str \in Range(e.days) THEN e.days
                        ELSE Append(e.days, day_str)
            IN [activity_log |-> log1,
                erasure_log |-> Append(st.erasure_log,
                                       [user_root |-> user_root, days |-> days,
                                        pending |-> TRUE, created_at |-> Len(log1)]),
                snapshots |-> MarkDirtyAll(mark_stale(snaps1, days), days)]
       ELSE [activity_log |-> log1, erasure_log |-> st.erasure_log, snapshots |-> snaps1]

RECURSIVE AppendTombstones(_, _, _, _)
\* one '-' row per day of days, under the key of the event's day
AppendTombstones(log, days, user_key, user_root) ==
    IF days = <<>> THEN log
    ELSE AppendTombstones(Append(log, [day |-> Head(days), user_key |-> user_key,
                                       user_root |-> user_root, op |-> "-"]),
                          Tail(days), user_key, user_root)

\* variant: a '-' event also writes a row for every other affected day
\* (Ledger.record_activity_batch)
ingest_event_tombstones(cfg, st, e) ==
    LET day_str == IsoFormat(e.day)
        user_key == hash_user_id(e.user_id, e.day, cfg)
        user_root == hash_user_root(e.user_id)
        log1 == Append(st.activity_log,
                       [day |-> day_str, user_key |-> user_key,
                        user_root |-> user_root, op |-> e.op])
        snaps1 == mark_dirty(st.snapshots, day_str)
    IN IF e.op = "-"
       THEN LET days0 == IF e.days # <<>> THEN e.days ELSE days_for_user(log1, user_root)
                days == IF day_str \in Range(days0) THEN days0 ELSE Append(days0, day_str)
                others == SelectSeq(days, LAMBDA d : d # day_str)
            IN [activity_log |-> AppendTombstones(log1, others, user_key, user_root),
                erasure_log |-> Append(st.erasure_log,
                                       [user_root |-> user_root, days |-> days,
                                        pending |-> TRUE, created_at |-> Len(log1)]),
                snapshots |-> MarkDirtyAll(mark_stale(snaps1, days), days)]
       ELSE [activity_log |-> log1, erasure_log |-> st.erasure_log, snapshots |-> snaps1]

\* variant: mark_dirty(day_str) after record_activity is left out; only the
\* loop over the days of a '-' event marks snapshots
ingest_event_no_own_mark(cfg, st, e) ==
    LET day_str == IsoFormat(e.day)
        user_key == hash_user_id(e.user_id, e.day, cfg)
        user_root == hash_user_root(e.user_id)
        log1 == Append(st.activity_log,
                       [day |-> day_str, user_key |-> user_key,
                        user_root |-> user_root, op |-> e.op])
    IN IF e.op = "-"
       THEN LET days0 == IF e.days # <<>> THEN e.days ELSE days_for_user(log1, user_root)
                days == IF day_str \in Range(days0) THEN days0 ELSE Append(days0, day_str)
            IN [activity_log |-> log1,
                erasure_log |-> Append(st.erasure_log,
                                       [user_root |-> user_root, days |-> days,
                                        pending |-> TRUE, created_at |-> Len(log1)]),
                snapshots |-> MarkDirtyAll(mark_stale(st.snapshots, days), days)]
       ELSE [activity_log |-> log1, erasure_log |-> st.erasure_log,
             snapshots |-> st.snapshots]

\* PipelineManager.ingest_event for a valid op, on (activity log, erasure log, cache)
ingest_event(cfg, st, e) ==
    LET day_str == IsoFormat(e.day)
        user_key == hash_user_id(e.user_id, e.day, cfg)
        user_root == hash_user_root(e.user_id)
        log1 == Append(st.activity_log,
                       [day |-> day_str, user_key |-> user_key,
                        user_root |-> user_root, op |-> e.op])
        snaps1 == mark_dirty(st.snapshots, day_str)
    IN IF e.op = "-"
       THEN LET days0 == IF e.days # <<>> THEN e.days ELSE days_for_user(log1, user_root)
                days == IF day_str \in Range(days0) THEN days0 ELSE Append(days0, day_str)
            IN [activity_log |-> log1,
                erasure_log |-> Append(st.erasure_log,
                                       [user_root |-> user_root, days |-> days,
                                        pending |-> TRUE, created_at |-> Len(log1)]),
                snapshots |-> MarkDirtyAll(mark_stale(snaps1, days), days)]
       ELSE [activity_log |-> log1, erasure_log |-> st.erasure_log, snapshots |-> snaps1]

\* the caller's EventRecord after ingest_event(e) returned: for a '-' event
\* days = event.metadata.get("days") is the caller's own list object when it
\* is non-empty, and days.append(day_str) writes into it; an empty or missing
\* list is replaced by the fresh list of ledger.days_for_user, and a '+' event
\* or a rejected op never reaches the branch
event_after_ingest(e) ==
    IF e.op = "-" /\ e.days # <<>> /\ IsoFormat(e.day) \notin Range(e.days)
    THEN [e EXCEPT !.days = Append(@, IsoFormat(e.day))]
    ELSE e

RECURSIVE ingest_batch_per_event(_, _, _)
\* variant: an invalid event is skipped and the loop goes on (per-event mode)
ingest_batch_per_event(cfg, st, events) ==
    IF events = <<>> THEN [state |-> st, status |-> "ok"]
    ELSE IF Head(events).op \notin {"+", "-"}
    THEN [state |-> ingest_batch_per_event(cfg, st, Tail(events)).state,
          status |-> "ValueError"]
    ELSE ingest_batch_per_event(cfg, ingest_event(cfg, st, Head(events)), Tail(events))

RECURSIVE ingest_batch(_, _, _)
\* PipelineManager.ingest_batch: ingest_event on each event in order; the
\* ValueError of an invalid op ends the loop
ingest_batch(cfg, st, events) ==
    IF events = <<>> THEN [state |-> st, status |-> "ok"]
    ELSE IF Head(events).op \notin {"+", "-"} THEN [state |-> st, status |-> "ValueError"]
    ELSE ingest_batch(cfg, ingest_event(cfg, st, Head(events)), Tail(events))

\* no event: the call took none
NoEvent == [user_id |-> "", op |-> "", day |-> 0, days |-> <<>>]

\* what the last API call was given and what it returned or raised.  The
\* arguments: event (ingest_event), metric and month (reset_budget),
\* sketch_impl (the configured backend of a construction); returned is the
\* object a get_snapshot call or a sketch method returned; rdp_points is the
\* mapping given to log_rdp_points; event_after is the caller's EventRecord
\* as ingest_event left it.  Three
\* history fields: replayed, the ids of the erasures pending when the call
\* started; stale_read, the days the call read whose cached snapshot was built
\* before a '-' event naming them; spent_before, what spent_budget gave for
\* the month, and rdp_before, the RDP rows of the metric and month, when
\* reset_budget started
NoResult ==
    [op |-> "none", status |-> "ok", day |-> <<0, 0, 0>>, window_days |-> 0,
     exact_value |-> 0, mechanism |-> "none", epsilon_used |-> 0, delta |-> 0,
     budget_remaining |-> 0, estimate |-> NoNoise, lower_95 |-> NoNoise,
     upper_95 |-> NoNoise, event |-> NoEvent, metric |-> "none", month |-> <<0, 0>>,
     replayed |-> {}, stale_read |-> {}, spent_before |-> 0, error |-> NoError,
     sketch_impl |-> "none", returned |-> None, rdp_before |-> 0,
     rdp_points |-> <<>>, event_after |-> NoEvent]

\* no call in progress on either thread
IdleThreads ==
    [ingest |-> [pc |-> "idle", event |-> NoEvent, days |-> <<>>],
     reader |-> [pc |-> "idle", day |-> <<0, 0, 0>>, events |-> <<>>]]

\* lists a caller puts under metadata["days"]; <<>> stands for no list
MetaDays == {<<>>} \cup {<<IsoFormat(d)>> : d \in Days}

\* events of the ledger scope: '+' of either user, '-' of alice with or
\* without a metadata.days list, and one invalid op
Events ==
    [user_id : Users, op : {"+"}, day : Days, days : {<<>>}]
    \cup [user_id : {"alice"}, op : {"-"}, day : Days, days : MetaDays]
    \cup [user_id : {"alice"}, op : {"*"}, day : {739554}, days : {<<>>}]

\* events of the duplicate scope: '+' of alice on either day, '-' of alice on
\* the last day without a metadata.days list or with one naming the first
\* day, and one invalid op
DupEvents ==
    [user_id : {"alice"}, op : {"+"}, day : Days, days : {<<>>}]
    \cup [user_id : {"alice"}, op : {"-"}, day : {739554 + NumDays - 1},
          days : {<<>>, <<IsoFormat(739554)>>}]
    \cup [user_id : {"alice"}, op : {"*"}, day : {739554}, days : {<<>>}]

\* events of the interleaving scope
RaceEvents ==
    [user_id : {"alice"}, op : {"+", "-", "*"}, day : Days, days : {<<>>}]

\* events of the budget scope
BudgetEvents ==
    [user_id : {"alice"}, op : {"+", "-", "*"}, day : {739555}, days : {<<>>}]

Batches(evs) == UNION {[1..n -> evs] : n \in 1..MaxBatch}

Init ==
    /\ config \in LedgerConfigs
    /\ activity_log = <<>>
    /\ erasure_log = <<>>
    /\ snapshots = <<>>
    /\ releases = EmptyBag
    /\ result = NoResult
    /\ threads = IdleThreads
    /\ rdp_releases = EmptyBag
    /\ sketches = <<>>

InitBudget ==
    /\ config \in BudgetConfigs
    /\ activity_log = <<>>
    /\ erasure_log = <<>>
    /\ snapshots = <<>>
    /\ releases = EmptyBag
    /\ result = NoResult
    /\ threads = IdleThreads
    /\ rdp_releases = EmptyBag
    /\ sketches = <<>>

\* the day strings of the window_days days ending at end_day
WindowDays(end_day, window_days) ==
    {IsoFormat(d) : d \in (end_day - (window_days - 1)) .. end_day}

\* history: the rdp_releases rows of a metric and month
RdpRowCount(rdp, metric, period) ==
    BagCardinality([r \in {x \in BagToSet(rdp) :
                              x.metric = metric /\ x.period = period} |-> rdp[r]])

\* history: the days among ds whose cached snapshot is stale
StaleDays(snaps, ds) == {d \in ds \cap DOMAIN snaps : snaps[d].stale}

State == [activity_log |-> activity_log, erasure_log |-> erasure_log,
          snapshots |-> snapshots]

\* variant: the op is validated after the ledger write and the invalidation
IngestEvent_late_validation(e, limit) ==
    /\ Len(activity_log) < limit
    /\ LET s1 == ingest_event(config, State, e)
       IN /\ activity_log' = s1.activity_log
          /\ erasure_log' = s1.erasure_log
          /\ snapshots' = s1.snapshots
    /\ result' = [NoResult EXCEPT !.op = "ingest_event", !.event = e,
                                  !.status = IF e.op \notin {"+", "-"}
                                             THEN "ValueError" ELSE "ok"]
    /\ UNCHANGED <<sketches, rdp_releases, threads, config, releases>>

\* variant: a '-' event also withdraws the release rows of its day
IngestEvent_retract_releases(e, limit) ==
    /\ IF e.op \notin {"+", "-"}
       THEN /\ result' = [NoResult EXCEPT !.op = "ingest_event", !.status = "ValueError",
                                          !.event = e]
            /\ UNCHANGED <<activity_log, erasure_log, snapshots, releases>>
       ELSE /\ Len(activity_log) < limit
            /\ LET s1 == ingest_event(config, State, e)
               IN /\ activity_log' = s1.activity_log
                  /\ erasure_log' = s1.erasure_log
                  /\ snapshots' = s1.snapshots
            /\ releases' = IF e.op = "-"
                           THEN [r \in {x \in BagToSet(releases) : x.day # IsoFormat(e.day)}
                                    |-> releases[r]]
                           ELSE releases
            /\ result' = [NoResult EXCEPT !.op = "ingest_event", !.event = e]
    /\ UNCHANGED <<sketches, rdp_releases, threads, config>>

IngestEvent(e, limit) ==
    /\ IF e.op \notin {"+", "-"}
       THEN /\ result' = [NoResult EXCEPT !.op = "ingest_event", !.status = "ValueError",
                                          !.event = e,
                                          !.event_after = event_after_ingest(e)]
            /\ UNCHANGED <<activity_log, erasure_log, snapshots>>
       ELSE /\ Len(activity_log) < limit
            /\ LET s1 == ingest_event(config, State, e)
               IN /\ activity_log' = s1.activity_log
                  /\ erasure_log' = s1.erasure_log
                  /\ snapshots' = s1.snapshots
            /\ result' = [NoResult EXCEPT !.op = "ingest_event", !.event = e,
                                          !.event_after = event_after_ingest(e)]
    /\ UNCHANGED <<sketches, rdp_releases, threads, config, releases>>

IngestBatch(events, limit) ==
    /\ Len(activity_log) + Len(events) <= limit
    /\ LET b == ingest_batch(config, State, events)
       IN /\ activity_log' = b.state.activity_log
          /\ erasure_log' = b.state.erasure_log
          /\ snapshots' = b.state.snapshots
          /\ result' = [NoResult EXCEPT !.op = "ingest_batch", !.status = b.status]
    /\ UNCHANGED <<sketches, rdp_releases, threads, config, releases>>

ReplayDeletions ==
    /\ LET r == replay_deletions(erasure_log, snapshots)
       IN /\ erasure_log' = r.erasure_log
          /\ snapshots' = r.snapshots
    /\ result' = [NoResult EXCEPT !.op = "replay_deletions",
                                  !.replayed = pending_erasures(erasure_log)]
    /\ UNCHANGED <<sketches, rdp_releases, threads, config, activity_log, releases>>

GetDailyRelease(day) ==
    LET r == replay_deletions(erasure_log, snapshots)
        day_str == IsoFormat(day)
        snaps1 == get_snapshot(r.snapshots, activity_log, day_str)
        base_value == Cardinality(snaps1[day_str].keys)
        sensitivity == IF w_bound < 1 THEN w_bound ELSE 1
        out == _release(config, releases, "dau", day, base_value, sensitivity)
    IN /\ erasure_log' = r.erasure_log
       /\ snapshots' = snaps1
       /\ releases' = out.releases
       /\ result' =
            IF out.status = "ok"
            THEN [NoResult EXCEPT
                  !.op = "get_daily_release", !.day = day_str,
                  !.estimate = out.noisy_value,
                  !.lower_95 = out.confidence_interval[1],
                  !.upper_95 = out.confidence_interval[2],
                  !.epsilon_used = out.epsilon, !.delta = out.delta,
                  !.mechanism = out.mechanism,
                  !.budget_remaining =
                      remaining_budget(out.releases, "dau", day, config.dau_budget_total),
                  !.exact_value = base_value,
                  !.replayed = pending_erasures(erasure_log),
                  !.stale_read = StaleDays(snapshots, {day_str})]
            ELSE [NoResult EXCEPT !.op = "get_daily_release", !.status = out.status,
                                  !.day = day_str, !.error = out.error,
                                  !.replayed = pending_erasures(erasure_log),
                                  !.stale_read = StaleDays(snapshots, {day_str})]
       /\ UNCHANGED <<sketches, rdp_releases, threads, config, activity_log>>

\* the window of get_mau_release: window_days or config.sketch.mau_window_days
WindowOf(cfg, window_days) ==
    IF window_days # 0 THEN window_days ELSE cfg.mau_window_days

GetMauRelease(end_day, window_days) ==
    LET r == replay_deletions(erasure_log, snapshots)
        window == WindowOf(config, window_days)
        end_day_str == IsoFormat(end_day)
        m == get_mau(r.snapshots, activity_log, end_day_str, window)
        base_value == Cardinality(m.union)
        sensitivity == w_bound
        out == _release(config, releases, "mau", end_day, base_value, sensitivity)
    IN /\ erasure_log' = r.erasure_log
       /\ snapshots' = m.snapshots
       /\ releases' = out.releases
       /\ result' =
            IF out.status = "ok"
            THEN [NoResult EXCEPT
                  !.op = "get_mau_release", !.day = end_day_str,
                  !.window_days = window,
                  !.estimate = out.noisy_value,
                  !.lower_95 = out.confidence_interval[1],
                  !.upper_95 = out.confidence_interval[2],
                  !.epsilon_used = out.epsilon, !.delta = out.delta,
                  !.mechanism = out.mechanism,
                  !.budget_remaining =
                      remaining_budget(out.releases, "mau", end_day, config.mau_budget_total),
                  !.exact_value = base_value,
                  !.replayed = pending_erasures(erasure_log),
                  !.stale_read = StaleDays(snapshots, WindowDays(end_day, window))]
            ELSE [NoResult EXCEPT !.op = "get_mau_release", !.status = out.status,
                                  !.day = end_day_str, !.window_days = window,
                                  !.error = out.error,
                                  !.replayed = pending_erasures(erasure_log),
                                  !.stale_read =
                                      StaleDays(snapshots, WindowDays(end_day, window))]
       /\ UNCHANGED <<sketches, rdp_releases, threads, config, activity_log>>

ResetBudget(metric, month) ==
    /\ releases' = reset_month(releases, metric, month)
    /\ result' = [NoResult EXCEPT !.op = "reset_budget", !.metric = metric,
                                  !.month = month,
                                  !.spent_before = spent_period(releases, metric, month),
                                  !.rdp_before = RdpRowCount(rdp_releases, metric, month)]
    /\ rdp_releases' = reset_month_rdp(rdp_releases, metric, month)
    /\ UNCHANGED <<sketches, threads, config, activity_log, erasure_log, snapshots>>

\* the API calls, with events from evs, at most limit activity rows, and
\* releases whose windows lie within days
Calls(evs, limit, days) ==
    \/ \E e \in evs : IngestEvent(e, limit)
    \/ \E b \in Batches(evs) : IngestBatch(b, limit)
    \/ ReplayDeletions
    \/ \E d \in days : GetDailyRelease(d)
    \/ \E d \in days, w \in 0..MaxWindow :
          /\ d - WindowOf(config, w) + 1 \in days
          /\ GetMauRelease(d, w)
    \/ \E m \in Metrics, d \in days : ResetBudget(m, month_key(d))

Next == Calls(Events, MaxEvents, Days)

NextBudget == Calls(BudgetEvents, MaxBudgetEvents, BudgetDays)

NextDup == Calls(DupEvents, MaxDupEvents, Days)

Spec == Init /\ [][Next]_vars

\* the duplicate scope: one user, logs long enough to repeat an event after
\* an earlier one
SpecDup == Init /\ [][NextDup]_vars

SpecBudget == InitBudget /\ [][NextBudget]_vars

\* ------------------------------------------------------ interleaving scope
\* One thread runs ingest_event calls, another get_snapshot calls (the read
\* path of the releases); a step is one store statement or one cache
\* operation, so the two calls interleave at every point between them.

\* ingest_event is called: the op check raises at once, otherwise the keys are
\* hashed and the call stands before ledger.record_activity
RaceIngestCall(e) ==
    /\ threads.ingest.pc = "idle"
    /\ Len(activity_log) < MaxRaceEvents
    /\ threads' = IF e.op \notin {"+", "-"} THEN threads
                  ELSE [threads EXCEPT !.ingest = [pc |-> "record_activity",
                                                   event |-> e, days |-> <<>>]]
    /\ UNCHANGED <<sketches, rdp_releases, config, activity_log, erasure_log, snapshots, releases, result>>

\* self.ledger.record_activity(activity_entry): the INSERT
RaceRecordActivity ==
    /\ threads.ingest.pc = "record_activity"
    /\ LET e == threads.ingest.event
       IN activity_log' = Append(activity_log,
                                 [day |-> IsoFormat(e.day),
                                  user_key |-> hash_user_id(e.user_id, e.day, config),
                                  user_root |-> hash_user_root(e.user_id), op |-> e.op])
    /\ threads' = [threads EXCEPT !.ingest.pc = "mark_dirty"]
    /\ UNCHANGED <<sketches, rdp_releases, config, erasure_log, snapshots, releases, result>>

\* self.window_manager.mark_dirty(day_str); a '+' call returns after it
RaceMarkDirty ==
    /\ threads.ingest.pc = "mark_dirty"
    /\ snapshots' = mark_dirty(snapshots, IsoFormat(threads.ingest.event.day))
    /\ threads' = IF threads.ingest.event.op = "-"
                  THEN [threads EXCEPT !.ingest.pc = "days_for_user"]
                  ELSE [threads EXCEPT !.ingest = IdleThreads.ingest]
    /\ UNCHANGED <<sketches, rdp_releases, config, activity_log, erasure_log, releases, result>>

\* days = metadata.get("days") or ledger.days_for_user(user_root) (the SELECT),
\* with day_str appended when missing
RaceDaysForUser ==
    /\ threads.ingest.pc = "days_for_user"
    /\ LET e == threads.ingest.event
           day_str == IsoFormat(e.day)
           days0 == IF e.days # <<>> THEN e.days
                    ELSE days_for_user(activity_log, hash_user_root(e.user_id))
           days == IF day_str \in Range(days0) THEN days0 ELSE Append(days0, day_str)
       IN threads' = [threads EXCEPT !.ingest.pc = "record_erasure", !.ingest.days = days]
    /\ UNCHANGED <<sketches, rdp_releases, config, activity_log, erasure_log, snapshots, releases, result>>

\* self.ledger.record_erasure(erasure_entry): the INSERT
RaceRecordErasure ==
    /\ threads.ingest.pc = "record_erasure"
    /\ erasure_log' = Append(erasure_log,
                             [user_root |-> hash_user_root(threads.ingest.event.user_id),
                              days |-> threads.ingest.days, pending |-> TRUE,
                              created_at |-> Len(activity_log)])
    /\ threads' = [threads EXCEPT !.ingest.pc = "mark_affected"]
    /\ UNCHANGED <<sketches, rdp_releases, config, activity_log, snapshots, releases, result>>

\* for affected_day in set(days): mark_dirty(affected_day); the call returns
RaceMarkAffected ==
    /\ threads.ingest.pc = "mark_affected"
    /\ snapshots' = MarkDirtyAll(mark_stale(snapshots, threads.ingest.days),
                                 threads.ingest.days)
    /\ threads' = [threads EXCEPT !.ingest = IdleThreads.ingest]
    /\ UNCHANGED <<sketches, rdp_releases, config, activity_log, erasure_log, releases, result>>

\* variant: only a missing snapshot is rebuilt (the dirty bit is not read)
RaceGetSnapshotCall_ignore_dirty(day) ==
    /\ threads.reader.pc = "idle"
    /\ LET day_str == IsoFormat(day)
       IN IF day_str \notin DOMAIN snapshots
          THEN /\ threads' = [threads EXCEPT !.reader = [pc |-> "events_loader",
                                                         day |-> day_str, events |-> <<>>]]
               /\ UNCHANGED result
          ELSE /\ result' = [NoResult EXCEPT !.op = "get_snapshot", !.day = day_str,
                                             !.returned = snapshots[day_str]]
               /\ UNCHANGED threads
    /\ UNCHANGED <<sketches, rdp_releases, config, activity_log, erasure_log, snapshots, releases>>

\* get_snapshot is called: snapshot = self.snapshots.get(day); a cached clean
\* snapshot is returned at once (result holds what the call returned),
\* otherwise the call stands before events_loader
RaceGetSnapshotCall(day) ==
    /\ threads.reader.pc = "idle"
    /\ LET day_str == IsoFormat(day)
       IN IF day_str \notin DOMAIN snapshots \/ snapshots[day_str].dirty
          THEN /\ threads' = [threads EXCEPT !.reader = [pc |-> "events_loader",
                                                         day |-> day_str, events |-> <<>>]]
               /\ UNCHANGED result
          ELSE /\ result' = [NoResult EXCEPT !.op = "get_snapshot", !.day = day_str,
                                             !.returned = snapshots[day_str]]
               /\ UNCHANGED threads
    /\ UNCHANGED <<sketches, rdp_releases, config, activity_log, erasure_log, snapshots, releases>>

\* events = events_loader(day): the SELECT of Ledger.fetch_day_events
RaceLoadEvents ==
    /\ threads.reader.pc = "events_loader"
    /\ threads' = [threads EXCEPT
                      !.reader.pc = "_build_snapshot",
                      !.reader.events = fetch_day_events(activity_log, threads.reader.day)]
    /\ UNCHANGED <<sketches, rdp_releases, config, activity_log, erasure_log, snapshots, releases, result>>

\* self._build_snapshot(day, events): the fold of the events read, stored in
\* the cache with dirty = False; the call returns
RaceBuildSnapshot ==
    /\ threads.reader.pc = "_build_snapshot"
    /\ LET active == FoldEvents(threads.reader.events, {})
           day_str == threads.reader.day
       IN /\ snapshots' = [d \in DOMAIN snapshots \cup {day_str} |->
                              IF d = day_str
                              THEN [sketch |-> active, keys |-> active,
                                    dirty |-> FALSE, stale |-> FALSE]
                              ELSE snapshots[d]]
          /\ result' = [NoResult EXCEPT !.op = "get_snapshot", !.day = day_str,
                                        !.returned = snapshots'[day_str]]
    /\ threads' = [threads EXCEPT !.reader = IdleThreads.reader]
    /\ UNCHANGED <<sketches, rdp_releases, config, activity_log, erasure_log, releases>>

NextRace ==
    \/ \E e \in RaceEvents : RaceIngestCall(e)
    \/ RaceRecordActivity
    \/ RaceMarkDirty
    \/ RaceDaysForUser
    \/ RaceRecordErasure
    \/ RaceMarkAffected
    \/ \E d \in Days : RaceGetSnapshotCall(d)
    \/ RaceLoadEvents
    \/ RaceBuildSnapshot

SpecRace == Init /\ [][NextRace]_vars

\* ------------------------------------------------------------- gate scope
\* Two threads call get_daily_release / get_mau_release on one PipelineManager;
\* a step is one accountant statement of _release (the SELECT of can_release,
\* the noise mechanism, the INSERT of record_release, the SELECT of
\* remaining_budget), so the calls interleave between the check and the
\* record.  threads holds each caller's position and local variables.

Callers == {"t1", "t2"}

\* 2025-10-31 and 2025-11-01: release days in two months
GateDays == 739555 .. (739555 + NumGateDays - 1)

\* no release call in progress on a thread
IdleCaller ==
    [pc |-> "idle", metric |-> "none", day |-> 0, window |-> 0, base_value |-> 0,
     sensitivity |-> 0, dp_result |-> NoNoise]

InitGate ==
    /\ config \in BudgetConfigs
    /\ activity_log = <<>>
    /\ erasure_log = <<>>
    /\ snapshots = <<>>
    /\ releases = EmptyBag
    /\ result = NoResult
    /\ threads = [t \in Callers |-> IdleCaller]
    /\ rdp_releases = EmptyBag
    /\ sketches = <<>>

\* get_daily_release(day) or get_mau_release(day) up to the gate:
\* replay_deletions, the exact value from the window manager, and
\* accountant.can_release, which raises BudgetExceeded or lets the call go on
GateCanRelease(t, metric, day) ==
    /\ threads[t].pc = "idle"
    /\ LET r == replay_deletions(erasure_log, snapshots)
           window == WindowOf(config, 0)
           day_str == IsoFormat(day)
           m == get_mau(r.snapshots, activity_log, day_str, window)
           snaps1 == IF metric = "dau"
                     THEN get_snapshot(r.snapshots, activity_log, day_str)
                     ELSE m.snapshots
           base_value == IF metric = "dau" THEN Cardinality(snaps1[day_str].keys)
                         ELSE Cardinality(m.union)
           sensitivity == IF metric = "dau" THEN (IF w_bound < 1 THEN w_bound ELSE 1)
                          ELSE w_bound
       IN /\ erasure_log' = r.erasure_log
          /\ snapshots' = snaps1
          /\ IF can_release(releases, metric, EpsilonOf(config, metric), day,
                            CapOf(config, metric))
             THEN /\ threads' = [threads EXCEPT ![t] =
                                    [pc |-> "mechanism", metric |-> metric, day |-> day,
                                     window |-> IF metric = "dau" THEN 0 ELSE window,
                                     base_value |-> base_value,
                                     sensitivity |-> sensitivity, dp_result |-> NoNoise]]
                  /\ UNCHANGED result
             ELSE /\ result' = [NoResult EXCEPT
                                   !.op = IF metric = "dau" THEN "get_daily_release"
                                          ELSE "get_mau_release",
                                   !.status = "BudgetExceeded", !.day = day_str,
                                   !.error = BudgetExceeded(metric, day)]
                  /\ UNCHANGED threads
    /\ UNCHANGED <<sketches, rdp_releases, config, activity_log, releases>>

\* the seeded generator and the noise mechanism; a ValueError ends the call
GateMechanism(t) ==
    /\ threads[t].pc = "mechanism"
    /\ LET c == threads[t]
           res == run_mechanism(c.base_value, c.sensitivity, EpsilonOf(config, c.metric),
                                DeltaOf(config, c.metric),
                                Random(_seed_for(c.metric, c.day, default_seed)))
       IN IF res.raised
          THEN /\ threads' = [threads EXCEPT ![t] = IdleCaller]
               /\ result' = [NoResult EXCEPT
                                !.op = IF c.metric = "dau" THEN "get_daily_release"
                                       ELSE "get_mau_release",
                                !.status = "ValueError", !.day = IsoFormat(c.day)]
          ELSE /\ threads' = [threads EXCEPT ![t].pc = "record_release",
                                             ![t].dp_result = res]
               /\ UNCHANGED result
    /\ UNCHANGED <<sketches, rdp_releases, config, activity_log, erasure_log, snapshots, releases>>

\* accountant.record_release: the INSERT and its commit
GateRecordRelease(t) ==
    /\ threads[t].pc = "record_release"
    /\ LET c == threads[t]
       IN releases' = record_release(releases, c.metric, c.day, EpsilonOf(config, c.metric),
                                     DeltaOf(config, c.metric), c.dp_result.mechanism)
    /\ threads' = [threads EXCEPT ![t].pc = "remaining_budget"]
    /\ UNCHANGED <<sketches, rdp_releases, config, activity_log, erasure_log, snapshots, result>>

\* accountant.remaining_budget and the payload the call returns
GateReturn(t) ==
    /\ threads[t].pc = "remaining_budget"
    /\ LET c == threads[t]
       IN result' = [NoResult EXCEPT
                       !.op = IF c.metric = "dau" THEN "get_daily_release"
                              ELSE "get_mau_release",
                       !.day = IsoFormat(c.day), !.window_days = c.window,
                       !.estimate = c.dp_result.noisy_value,
                       !.lower_95 = c.dp_result.confidence_interval[1],
                       !.upper_95 = c.dp_result.confidence_interval[2],
                       !.epsilon_used = c.dp_result.epsilon, !.delta = c.dp_result.delta,
                       !.mechanism = c.dp_result.mechanism,
                       !.budget_remaining =
                           remaining_budget(releases, c.metric, c.day,
                                            CapOf(config, c.metric)),
                       !.exact_value = c.base_value]
    /\ threads' = [threads EXCEPT ![t] = IdleCaller]
    /\ UNCHANGED <<sketches, rdp_releases, config, activity_log, erasure_log, snapshots, releases>>

NextGate ==
    \/ \E t \in Callers, m \in Metrics, d \in GateDays : GateCanRelease(t, m, d)
    \/ \E t \in Callers : GateMechanism(t)
    \/ \E t \in Callers : GateRecordRelease(t)
    \/ \E t \in Callers : GateReturn(t)

SpecGate == InitGate /\ [][NextGate]_vars

\* ------------------------------------------------------------- loop scope
\* One thread runs get_mau_release with the while loop of WindowManager.get_mau
\* taken one iteration at a time; threads holds the position of that call
\* and the loop's local variables.  The calls around it are atomic.

\* release days of the loop scope: 2025-11-01 onwards, windows reaching back
\* over the month boundary
LoopDays == 739556 .. (739556 + NumLoopDays - 1)

\* no get_mau_release call in progress
IdleLoop ==
    [pc |-> "idle", end |-> 0, day |-> 0, window |-> 0, union |-> {}, visited |-> <<>>]

InitLoop ==
    /\ config \in BudgetConfigs
    /\ activity_log = <<>>
    /\ erasure_log = <<>>
    /\ snapshots = <<>>
    /\ releases = EmptyBag
    /\ result = NoResult
    /\ threads = IdleLoop
    /\ rdp_releases = EmptyBag
    /\ sketches = <<>>

\* variant: the loop leaves out the end day (while day < end)
loop_continues_strict(day, end) == day < end

\* the loop condition of WindowManager.get_mau: while day <= end
loop_continues(day, end) == day <= end

LoopIngestEvent(e) ==
    /\ threads.pc = "idle"
    /\ IngestEvent(e, MaxBudgetEvents)

LoopDailyRelease(day) ==
    /\ threads.pc = "idle"
    /\ GetDailyRelease(day)

\* get_mau_release up to the loop: replay_deletions, the window, and
\* get_mau's end, start, empty union sketch and day = start
MauCall(end_day, window_days) ==
    /\ threads.pc = "idle"
    /\ LET r == replay_deletions(erasure_log, snapshots)
           window == WindowOf(config, window_days)
           end == parse_day(IsoFormat(end_day))
           start == end - (window - 1)
       IN /\ erasure_log' = r.erasure_log
          /\ snapshots' = r.snapshots
          /\ threads' = [pc |-> "loop", end |-> end, day |-> start, window |-> window,
                         union |-> {}, visited |-> <<>>]
    /\ UNCHANGED <<sketches, rdp_releases, config, activity_log, releases, result>>

\* one iteration: get_snapshot of the day, the merge into the union, day += 1
MauLoopStep ==
    /\ threads.pc = "loop"
    /\ loop_continues(threads.day, threads.end)
    /\ LET day_key == IsoFormat(threads.day)
           snaps1 == get_snapshot(snapshots, activity_log, day_key)
       IN /\ snapshots' = snaps1
          /\ threads' = [threads EXCEPT !.union = @ \cup snaps1[day_key].sketch,
                                        !.day = @ + 1,
                                        !.visited = Append(@, day_key)]
    /\ UNCHANGED <<sketches, rdp_releases, config, activity_log, erasure_log, releases, result>>

\* the loop is left: get_mau returns the union's estimate, _release runs and
\* get_mau_release returns the payload or raises
MauFinish ==
    /\ threads.pc = "loop"
    /\ ~loop_continues(threads.day, threads.end)
    /\ LET base_value == Cardinality(threads.union)
           end_day_str == IsoFormat(threads.end)
           out == _release(config, releases, "mau", threads.end, base_value, w_bound)
       IN /\ releases' = out.releases
          /\ result' =
               IF out.status = "ok"
               THEN [NoResult EXCEPT
                     !.op = "get_mau_release", !.day = end_day_str,
                     !.window_days = threads.window,
                     !.estimate = out.noisy_value,
                     !.lower_95 = out.confidence_interval[1],
                     !.upper_95 = out.confidence_interval[2],
                     !.epsilon_used = out.epsilon, !.delta = out.delta,
                     !.mechanism = out.mechanism,
                     !.budget_remaining =
                         remaining_budget(out.releases, "mau", threads.end,
                                          config.mau_budget_total),
                     !.exact_value = base_value]
               ELSE [NoResult EXCEPT !.op = "get_mau_release", !.status = out.status,
                                     !.day = end_day_str,
                                     !.window_days = threads.window,
                                     !.error = out.error]
    /\ threads' = IdleLoop
    /\ UNCHANGED <<sketches, rdp_releases, config, activity_log, erasure_log, snapshots>>

NextLoop ==
    \/ \E e \in BudgetEvents : LoopIngestEvent(e)
    \/ \E d \in LoopDays : LoopDailyRelease(d)
    \/ \E d \in LoopDays, w \in 0..MaxLoopWindow : MauCall(d, w)
    \/ MauLoopStep
    \/ MauFinish

\* a call that was started keeps running: the thread is scheduled again and
\* nothing in the call waits for another thread
SpecLoop ==
    InitLoop /\ [][NextLoop]_vars /\ WF_vars(MauLoopStep) /\ WF_vars(MauFinish)

\* -------------------------------------------------------- accountant scope
\* The pipeline calls together with PrivacyAccountant.log_rdp, the writer of
\* the rdp_releases table.

\* 2025-10-31 and 2025-11-01: two months
AcctDays == 739555 .. (739555 + NumAcctDays - 1)

\* DPSettings.rdp_orders of the scope
RdpOrders == {2}

\* settings of the accountant scope: three 1e-9 DAU releases under a 3e-9 cap
\* and a Laplace MAU release that the tolerance admits above its cap
AcctConfigs ==
    { [epsilon_dau |-> 1, dau_budget_total |-> 3, epsilon_mau |-> 5,
       mau_budget_total |-> 4, delta |-> 0,
       hash_salt_rotation_days |-> 30, mau_window_days |-> 1] }

AcctEvents ==
    [user_id : {"alice"}, op : {"+", "-", "*"}, day : {739555}, days : {<<>>}]

InitAcct ==
    /\ config \in AcctConfigs
    /\ activity_log = <<>>
    /\ erasure_log = <<>>
    /\ snapshots = <<>>
    /\ releases = EmptyBag
    /\ result = NoResult
    /\ threads = IdleThreads
    /\ rdp_releases = EmptyBag
    /\ sketches = <<>>

\* accountant.log_rdp(metric, day, order, rdp_value)
LogRdp(metric, day, order, rdp_value) ==
    /\ BagCardinality(rdp_releases) < MaxRdpRows
    /\ LET out == log_rdp(rdp_releases, metric, day, order, rdp_value)
       IN /\ rdp_releases' = out.rdp_releases
          /\ result' = [NoResult EXCEPT !.op = "log_rdp", !.status = out.status,
                                        !.metric = metric, !.day = IsoFormat(day)]
    /\ UNCHANGED <<sketches, threads, config, activity_log, erasure_log, snapshots, releases>>

NextAcct ==
    \/ Calls(AcctEvents, MaxAcctEvents, AcctDays)
    \/ \E m \in Metrics, d \in AcctDays, a \in {1} \cup RdpOrders :
          LogRdp(m, d, a, 1)

SpecAcct == InitAcct /\ [][NextAcct]_vars

\* --------------------------------------------------------------- RDP scope
\* The accountant alone: log_rdp_points with batches of points, and reset_month.

\* orders a caller may pass: 1 is rejected
PointOrders == 1..MaxOrder

\* epsilon values a caller may pass: -1 is rejected
PointValues == {-1, 1}

\* the mappings {order: epsilon} of the scope, the empty one included
PointBatches == UNION {[S -> PointValues] : S \in SUBSET PointOrders}

\* accountant.log_rdp_points(metric, day, rdp_points)
LogRdpPoints(metric, day, rdp_points) ==
    /\ BagCardinality(rdp_releases) + Cardinality(DOMAIN rdp_points) <= MaxRdpPoints
    /\ LET out == log_rdp_points(rdp_releases, metric, day, rdp_points)
       IN /\ rdp_releases' = out.rdp_releases
          /\ result' = [NoResult EXCEPT !.op = "log_rdp_points", !.status = out.status,
                                        !.metric = metric, !.day = IsoFormat(day),
                                        !.rdp_points = rdp_points]
    /\ UNCHANGED <<sketches, threads, config, activity_log, erasure_log, snapshots, releases>>

NextRdp ==
    \/ \E m \in Metrics, d \in AcctDays, pts \in PointBatches : LogRdpPoints(m, d, pts)
    \/ \E m \in Metrics, d \in AcctDays : ResetBudget(m, month_key(d))

SpecRdp == InitAcct /\ [][NextRdp]_vars

\* ------------------------------------------------------------ sketch layer
\* A sketch object is its backend and what it retains: the key set of a
\* SetSketch, the ascending list of the k smallest hashes of a KMVSketch.

RECURSIVE SortedSeq(_)
\* sorted(S) for a set of integers
SortedSeq(S) ==
    IF S = {} THEN <<>>
    ELSE LET m == CHOOSE x \in S : \A y \in S : x <= y
         IN <<m>> \o SortedSeq(S \ {m})

\* seq[:n]
Take(seq, n) == SubSeq(seq, 1, IF Len(seq) < n THEN Len(seq) ELSE n)

\* SketchConfig.k of the model
SketchK == 2

\* kmv_impl._hash_key: blake2b to 64 bits, taken as injective; the hashes of
\* the model's keys are not in the order of the keys
_hash_key(key) == (key * 5) % 7

\* SetSketch.__init__
SetSketch(keys) == [impl |-> "set", keys |-> keys]

\* KMVSketch.__init__: _hashes = sorted(set(hashes))[:k], _hash_set = set(_hashes)
KMVSketch(k, hashes) ==
    [impl |-> "kmv", k |-> k, hashes |-> Take(SortedSeq(hashes), k),
     hash_set |-> Range(Take(SortedSeq(hashes), k))]

\* bisect.insort(seq, x) on an ascending list: x goes after the items <= x
Insort(seq, x) ==
    LET i == Cardinality({j \in DOMAIN seq : seq[j] <= x})
    IN SubSeq(seq, 1, i) \o <<x>> \o SubSeq(seq, i + 1, Len(seq))

\* SketchFactory.create(name) for the two backends of sketches/__init__.py
create(name) == IF name = "set" THEN SetSketch({}) ELSE KMVSketch(SketchK, {})

\* variant: a full sketch takes no further hash (the first k seen are kept)
add_first_k(s, key) ==
    IF s.impl = "set" THEN SetSketch(s.keys \cup {key})
    ELSE LET hashed == _hash_key(key)
         IN IF hashed \in s.hash_set THEN s
            ELSE IF Len(s.hashes) < s.k
                 THEN [s EXCEPT !.hashes = Insort(@, hashed),
                                !.hash_set = @ \cup {hashed}]
            ELSE s

\* SetSketch.add / KMVSketch.add: the sketch after the call.  KMV: a hash in
\* _hash_set is skipped; below k it is inserted; at k it is inserted when
\* smaller than the largest, and the list is popped back to k with each
\* popped hash discarded from _hash_set
add(s, key) ==
    IF s.impl = "set" THEN SetSketch(s.keys \cup {key})
    ELSE LET hashed == _hash_key(key)
         IN IF hashed \in s.hash_set THEN s
            ELSE IF Len(s.hashes) < s.k
                 THEN [s EXCEPT !.hashes = Insort(@, hashed),
                                !.hash_set = @ \cup {hashed}]
            ELSE IF hashed >= s.hashes[Len(s.hashes)] THEN s
            ELSE LET grown == Insort(s.hashes, hashed)
                     popped == {grown[j] : j \in (s.k + 1)..Len(grown)}
                 IN [s EXCEPT !.hashes = Take(grown, s.k),
                              !.hash_set = (@ \cup {hashed}) \ popped]

\* KMVSketch.union past the type check: merged = sorted(set(_hashes) | other's
\* _hashes), _hashes = merged[:k], _hash_set = set(_hashes)
KMVUnion(s, other) ==
    LET merged == SortedSeq(Range(s.hashes) \cup Range(other.hashes))
    IN [s EXCEPT !.hashes = Take(merged, s.k), !.hash_set = Range(Take(merged, s.k))]

\* variant: the argument's backend is not checked; reading the attribute the
\* other backend lacks raises AttributeError
union_unchecked(s, other) ==
    IF s.impl = other.impl
    THEN [status |-> "ok",
          sketch |-> IF s.impl = "set" THEN SetSketch(s.keys \cup other.keys)
                     ELSE KMVUnion(s, other)]
    ELSE [status |-> "AttributeError", sketch |-> s]

\* SetSketch.union / KMVSketch.union: what the call raised and the receiver after it
union(s, other) ==
    IF s.impl # other.impl THEN [status |-> "TypeError", sketch |-> s]
    ELSE [status |-> "ok",
          sketch |-> IF s.impl = "set" THEN SetSketch(s.keys \cup other.keys)
                     ELSE KMVUnion(s, other)]

\* SetSketch.a_not_b / KMVSketch.a_not_b: what the call raised and the new
\* sketch it returned; false_pos are the receiver's hashes the Bloom filter of
\* the argument reports although it does not hold them (none without Bloom)
a_not_b(s, other, false_pos) ==
    IF s.impl # other.impl THEN [status |-> "TypeError", returned |-> None]
    ELSE [status |-> "ok",
          returned |-> IF s.impl = "set" THEN SetSketch(s.keys \ other.keys)
                       ELSE KMVSketch(s.k, Range(s.hashes)
                                           \ (Range(other.hashes) \cup false_pos))]

\* SetSketch.estimate / KMVSketch.estimate; (k - 1) / tau with tau the largest
\* retained hash over MAX_HASH is kept as a term
estimate(s) ==
    IF s.impl = "set" THEN Cardinality(s.keys)
    ELSE IF s.hashes = <<>> THEN 0
    ELSE IF Len(s.hashes) < s.k THEN Len(s.hashes)
    ELSE IF s.hashes[Len(s.hashes)] <= 0 THEN Len(s.hashes)
    ELSE [k_minus_1 |-> s.k - 1, largest |-> s.hashes[Len(s.hashes)]]

\* variant: the KMV payload is cut to count - 1 hashes
serialize_short(s) ==
    IF s.impl = "set"
    THEN [format |-> "pickle",
          items |-> CHOOSE t \in [1..Cardinality(s.keys) -> s.keys] : Range(t) = s.keys]
    ELSE [format |-> "kmv", k |-> s.k, count |-> Len(s.hashes),
          data |-> Take(s.hashes, Len(s.hashes) - 1)]

\* SetSketch.serialize: pickle of tuple(keys), the keys in the set's iteration
\* order; KMVSketch.serialize: the header (k, count) and the hashes as 8-byte words
serialize(s) ==
    IF s.impl = "set"
    THEN [format |-> "pickle",
          items |-> CHOOSE t \in [1..Cardinality(s.keys) -> s.keys] : Range(t) = s.keys]
    ELSE [format |-> "kmv", k |-> s.k, count |-> Len(s.hashes), data |-> s.hashes]

\* SetSketch.deserialize / KMVSketch.deserialize under a configuration with k
deserialize(payload, k) ==
    IF payload.format = "pickle" THEN SetSketch(Range(payload.items))
    ELSE LET count == IF payload.k # k /\ k < payload.count THEN k ELSE payload.count
             hashes == Take(Take(payload.data, count), k)
         IN KMVSketch(k, Range(hashes))

\* the fields of the SketchFactory dataclass and those without a default
SketchFactoryFields == {"config", "backends", "default_impl"}
SketchFactoryRequired == {"config", "backends"}

\* SketchFactory(**kwargs): the generated __init__ raises TypeError for a
\* keyword that is no field and for a missing required field
SketchFactory(kwargs) ==
    IF ~(DOMAIN kwargs \subseteq SketchFactoryFields)
       \/ ~(SketchFactoryRequired \subseteq DOMAIN kwargs)
    THEN [raised |-> "TypeError"]
    ELSE [raised |-> "none", fields |-> kwargs]

\* the builders dict of PipelineManager._build_sketch_factory
Builders == {"set", "hllpp", "theta"}

\* PipelineManager._build_sketch_factory: what it raised, and the default_impl
\* of the factory it returned
_build_sketch_factory(impl) ==
    LET factory == SketchFactory([builders |-> Builders, default_impl |-> "set"])
    IN IF factory.raised # "none"
       THEN [status |-> factory.raised, default_impl |-> "none"]
       ELSE IF impl \notin factory.fields.builders
       THEN [status |-> "RuntimeError", default_impl |-> "none"]
       ELSE [status |-> "ok", default_impl |-> impl]

\* ------------------------------------------------------------ sketch scope
\* Two named sketch objects driven through the DistinctSketch interface, and
\* the construction of a PipelineManager for a configured backend.

SketchKeys == 1..NumSketchKeys
Slots == {"a", "b"}
\* values config.sketch.impl may take (config.py validator) 
SketchImpls == {"kmv", "set", "theta", "hllpp"}

InitSketch ==
    /\ config \in LedgerConfigs
    /\ activity_log = <<>>
    /\ erasure_log = <<>>
    /\ snapshots = <<>>
    /\ releases = EmptyBag
    /\ result = NoResult
    /\ threads = IdleThreads
    /\ rdp_releases = EmptyBag
    /\ sketches = [x \in Slots |-> create(IF x = "a" THEN "set" ELSE "kmv")]

Pinned == UNCHANGED <<config, activity_log, erasure_log, snapshots, releases, threads,
                      rdp_releases>>

\* PipelineManager(config) with config.sketch.impl = impl
Construct(impl) ==
    /\ result' = [NoResult EXCEPT !.op = "construct", !.sketch_impl = impl,
                                  !.status = _build_sketch_factory(impl).status,
                                  !.returned =
                                      [default_impl |->
                                           _build_sketch_factory(impl).default_impl]]
    /\ UNCHANGED sketches
    /\ Pinned

\* sketches[x] = factory.create(name)
SkCreate(x, name) ==
    /\ sketches' = [sketches EXCEPT ![x] = create(name)]
    /\ result' = [NoResult EXCEPT !.op = "create"]
    /\ Pinned

\* sketches[x].add(key)
SkAdd(x, key) ==
    /\ sketches' = [sketches EXCEPT ![x] = add(@, key)]
    /\ result' = [NoResult EXCEPT !.op = "add"]
    /\ Pinned

\* sketches[x].union(sketches[y])
SkUnion(x, y) ==
    /\ LET out == union(sketches[x], sketches[y])
       IN /\ sketches' = [sketches EXCEPT ![x] = out.sketch]
          /\ result' = [NoResult EXCEPT !.op = "union", !.status = out.status]
    /\ Pinned

\* sketches[x].a_not_b(sketches[y])
SkANotB(x, y) ==
    /\ \E false_pos \in SUBSET (IF sketches[x].impl = "kmv"
                                THEN Range(sketches[x].hashes) ELSE {}) :
          LET out == a_not_b(sketches[x], sketches[y], false_pos)
          IN result' = [NoResult EXCEPT !.op = "a_not_b", !.status = out.status,
                                        !.returned = out.returned]
    /\ UNCHANGED sketches
    /\ Pinned

\* type(s).deserialize(s.serialize(), config) for s = sketches[x]
SkRoundTrip(x) ==
    /\ result' = [NoResult EXCEPT !.op = "deserialize",
                                  !.returned = deserialize(serialize(sketches[x]), SketchK)]
    /\ UNCHANGED sketches
    /\ Pinned

NextSketch ==
    \/ \E impl \in SketchImpls : Construct(impl)
    \/ \E x \in Slots, name \in {"set", "kmv"} : SkCreate(x, name)
    \/ \E x \in Slots, key \in SketchKeys : SkAdd(x, key)
    \/ \E x \in Slots, y \in Slots : SkUnion(x, y)
    \/ \E x \in Slots, y \in Slots : SkANotB(x, y)
    \/ \E x \in Slots : SkRoundTrip(x)

SpecSketch == InitSketch /\ [][NextSketch]_vars

\* --------------------------------------------------------------- KMV scope
\* Two KMVSketch objects of one SketchConfig under add and union.  In this
\* scope sketches[x] is the object together with a history field: the keys
\* added to it or to a sketch unioned into it since it was created.

KmvKeys == 1..NumKmvKeys

InitKmv ==
    /\ config \in LedgerConfigs
    /\ activity_log = <<>>
    /\ erasure_log = <<>>
    /\ snapshots = <<>>
    /\ releases = EmptyBag
    /\ result = NoResult
    /\ threads = IdleThreads
    /\ rdp_releases = EmptyBag
    /\ sketches = [x \in Slots |-> [sketch |-> create("kmv"), added |-> {}]]

\* sketches[x] = factory.create("kmv")
KmvCreate(x) ==
    /\ sketches' = [sketches EXCEPT ![x] = [sketch |-> create("kmv"), added |-> {}]]
    /\ result' = [NoResult EXCEPT !.op = "create"]
    /\ Pinned

\* sketches[x].add(key)
KmvAdd(x, key) ==
    /\ sketches' = [sketches EXCEPT ![x] = [sketch |-> add(@.sketch, key),
                                            added |-> @.added \cup {key}]]
    /\ result' = [NoResult EXCEPT !.op = "add"]
    /\ Pinned

\* sketches[x].union(sketches[y])
KmvUnionCall(x, y) ==
    /\ LET out == union(sketches[x].sketch, sketches[y].sketch)
       IN /\ sketches' = [sketches EXCEPT ![x] = [sketch |-> out.sketch,
                                                  added |-> @.added \cup sketches[y].added]]
          /\ result' = [NoResult EXCEPT !.op = "union", !.status = out.status]
    /\ Pinned

NextKmv ==
    \/ \E x \in Slots : KmvCreate(x)
    \/ \E x \in Slots, key \in KmvKeys : KmvAdd(x, key)
    \/ \E x \in Slots, y \in Slots : KmvUnionCall(x, y)

SpecKmv == InitKmv /\ [][NextKmv]_vars

TypeOK ==
    /\ config \in LedgerConfigs \cup BudgetConfigs \cup AcctConfigs
    /\ \A i \in DOMAIN erasure_log : erasure_log[i].days # <<>>
    /\ \A d \in DOMAIN snapshots : snapshots[d].stale => snapshots[d].dirty

\* ------------------------------------------------------------ claim helpers
ReleaseOps == {"get_daily_release", "get_mau_release"}

MetricOf(op) == IF op = "get_daily_release" THEN "dau" ELSE "mau"

\* the day strings the release in result read
ResultDays ==
    IF result.op = "get_daily_release" THEN {result.day}
    ELSE WindowDays(parse_day(result.day), result.window_days)

\* ids of the activity rows of a day
RowsOfDay(day_str) == {i \in DOMAIN activity_log : activity_log[i].day = day_str}

\* ids of the release rows of a metric and period
RowsFor(rel, metric, period) ==
    {r \in BagToSet(rel) : r.metric = metric /\ r.period = period}

\* the epoch of a day string under the configured rotation cadence
EpochOf(day_str) == parse_day(day_str) \div Max(config.hash_salt_rotation_days, 1)

C2_DeletedUserGone ==
    (result.op = "get_daily_release" /\ result.status = "ok") =>
        \A i \in DOMAIN erasure_log :
            LET e == erasure_log[i]
                readded == \E j \in RowsOfDay(result.day) :
                              /\ j > e.created_at
                              /\ activity_log[j].user_root = e.user_root
                              /\ activity_log[j].op = "+"
            IN (result.day \in Range(e.days) /\ ~e.pending /\ ~readded) =>
                  \A k \in snapshots[result.day].keys : k.uid # e.user_root.root

\* ---------------------------------------------------------------------- C3
\* C3: with the set backend, when users only have '+' events on days of a
\* window lying in one rotation epoch, get_mau_release(end, W).exact_value is
\* the number of distinct users, not of user-days.
C3_MauCountsUsers ==
    LET rows == UNION {RowsOfDay(d) : d \in ResultDays}
    IN (/\ result.op = "get_mau_release"
        /\ result.status = "ok"
        /\ \A i \in rows : activity_log[i].op = "+"
        /\ \A d1, d2 \in ResultDays : EpochOf(d1) = EpochOf(d2)) =>
           result.exact_value = Cardinality({activity_log[i].user_root : i \in rows})

\* ---------------------------------------------------------------------- C4
\* C4: two events of the same user carry the same user key if and only if
\* their days lie in the same rotation epoch.
C4_KeyStableWithinEpoch ==
    \A i, j \in DOMAIN activity_log :
        activity_log[i].user_root = activity_log[j].user_root =>
            (activity_log[i].user_key = activity_log[j].user_key
                <=> EpochOf(activity_log[i].day) = EpochOf(activity_log[j].day))

\* ---------------------------------------------------------------------- C5
\* the release call of a step, judged against the state it started in
GateExact ==
    result'.op \in ReleaseOps =>
        LET m == MetricOf(result'.op)
            d == parse_day(result'.day)
        IN (result'.status = "BudgetExceeded")
              <=> (spent_budget(releases, m, d) + EpsilonOf(config, m)
                      > CapOf(config, m) + Tolerance)

\* with cap == epsilon: the first release of the metric in the month
\* succeeds, every later one fails with BudgetExceeded
FirstOnly(m) ==
    (result'.op \in ReleaseOps /\ MetricOf(result'.op) = m) =>
        IF RowsFor(releases, m, month_key(parse_day(result'.day))) = {}
        THEN result'.status = "ok"
        ELSE result'.status = "BudgetExceeded"

C6_FailedReleaseRecordsNothing ==
    [][/\ (result'.op \in ReleaseOps /\ result'.status # "ok") =>
              /\ releases' = releases
              /\ \A m \in Metrics, d \in BudgetDays :
                    spent_budget(releases', m, d) = spent_budget(releases, m, d)
       /\ (result'.op \in ReleaseOps /\ releases' # releases) =>
              /\ result'.status = "ok"
              /\ releases' = releases (+) SetToBag({
                    [metric |-> MetricOf(result'.op), day |-> result'.day,
                     period |-> month_key(parse_day(result'.day)),
                     epsilon |-> result'.epsilon_used, delta |-> result'.delta,
                     mechanism |-> result'.mechanism]})
       /\ result'.op \notin ReleaseOps =>
              \A r \in BagToSet(releases') : CopiesIn(r, releases') <= CopiesIn(r, releases)]_vars

\* a release failed while the accountant holds rows
C6_Witness ==
    /\ result.op \in ReleaseOps
    /\ result.status = "BudgetExceeded"
    /\ releases # EmptyBag

\* ---------------------------------------------------------------------- C7
\* C7: get_daily_release(D).exact_value is the number of user keys whose last
\* row on D, in insertion order, is '+'.
C7_DauCountsLastPlus ==
    (result.op = "get_daily_release" /\ result.status = "ok") =>
        LET rows == RowsOfDay(result.day)
            keys == {activity_log[i].user_key : i \in rows}
            last(k) == CHOOSE i \in rows :
                          /\ activity_log[i].user_key = k
                          /\ \A j \in rows : activity_log[j].user_key = k => j <= i
        IN result.exact_value
              = Cardinality({k \in keys : activity_log[last(k)].op = "+"})

\* a DAU release of a day on which a user was added and later removed
C7_Witness ==
    /\ result.op = "get_daily_release"
    /\ result.status = "ok"
    /\ \E i, j \in RowsOfDay(result.day) :
          /\ i < j
          /\ activity_log[i].user_key = activity_log[j].user_key
          /\ activity_log[i].op = "+"
          /\ activity_log[j].op = "-"

\* ---------------------------------------------------------------------- C8
\* C8: after a '-' event, a release that reads one of its affected days does
\* not serve a snapshot built before the event: every day the release read is
\* cached, clean, not stale and equal to the fold of the day's ledger rows.
C8_ReleaseServesRebuilt ==
    result.op \in ReleaseOps =>
        \A d \in ResultDays :
            /\ d \in DOMAIN snapshots
            /\ ~snapshots[d].stale
            /\ ~snapshots[d].dirty
            /\ snapshots[d].keys = FoldEvents(fetch_day_events(activity_log, d), {})

\* a release read a day whose cached snapshot predated a '-' event naming it
C8_Witness ==
    /\ result.op \in ReleaseOps
    /\ result.stale_read # {}

\* ---------------------------------------------------------------------- C9
\* C9: right after replay_deletions() no erasure is pending, and every day of
\* every erasure that was pending when the call started has no cached
\* snapshot or a dirty one.
C9_ReplayLeavesNonePending ==
    result.op = "replay_deletions" =>
        /\ pending_erasures(erasure_log) = {}
        /\ \A i \in result.replayed : \A d \in Range(erasure_log[i].days) :
              d \notin DOMAIN snapshots \/ snapshots[d].dirty

\* replay_deletions processed an erasure naming a day with a cached snapshot
C9_Witness ==
    /\ result.op = "replay_deletions"
    /\ \E i \in result.replayed : \E d \in Range(erasure_log[i].days) :
          d \in DOMAIN snapshots

\* --------------------------------------------------------------------- C10
\* the user has an erasure whose days cover every window day the user was
\* added on, and was not added on a window day afterwards
DeletedInWindow(uid, ds) ==
    \E i \in DOMAIN erasure_log :
        LET e == erasure_log[i]
            plus == {j \in UNION {RowsOfDay(d) : d \in ds} :
                        /\ activity_log[j].user_root = e.user_root
                        /\ activity_log[j].op = "+"}
        IN /\ e.user_root.root = uid
           /\ \A j \in plus : activity_log[j].day \in Range(e.days)
           /\ \A j \in plus : j < e.created_at

\* C10: with the set backend, once a user is deleted with days covering every
\* window day the user was active on, get_mau_release(end, W).exact_value no
\* longer contains that user's contribution.
C10_MauDropsDeletedUser ==
    (result.op = "get_mau_release" /\ result.status = "ok") =>
        result.exact_value =
            Cardinality(UNION {
                {k \in FoldEvents(fetch_day_events(activity_log, d), {}) :
                    ~DeletedInWindow(k.uid, ResultDays)} : d \in ResultDays})

\* --------------------------------------------------------------------- C11
\* the fold of the ledger's rows of a day, in insertion order
LedgerFold(day_str) == FoldEvents(fetch_day_events(activity_log, day_str), {})

\* C11 as stated: in every reachable state, every cached snapshot, dirty or
\* not, has keys equal to the fold of the ledger's rows of its day.
C11_Original ==
    \A d \in DOMAIN snapshots : snapshots[d].keys = LedgerFold(d)

\* C11 amended: in every reachable state, every cached snapshot that is not
\* dirty has keys equal to the fold of the ledger's rows of its day in
\* insertion order ('+' adds the key, '-' discards it).
C11_CleanSnapshotIsFold ==
    \A d \in DOMAIN snapshots : ~snapshots[d].dirty => snapshots[d].keys = LedgerFold(d)

\* a clean snapshot of a day whose rows hold a '+' followed by a '-' of the
\* same key
C11_Witness ==
    \E d \in DOMAIN snapshots :
        /\ ~snapshots[d].dirty
        /\ \E i, j \in RowsOfDay(d) :
              /\ i < j
              /\ activity_log[i].user_key = activity_log[j].user_key
              /\ activity_log[i].op = "+"
              /\ activity_log[j].op = "-"

\* --------------------------------------------------------------------- C12
\* the key set of a day as a release reads it: replay_deletions, then
\* get_snapshot
KeysRead(log, elog, snaps, day_str) ==
    get_snapshot(replay_deletions(elog, snaps).snapshots, log, day_str)[day_str].keys

\* C12: the key set of day D read just before and just after ingest_event of
\* one event on D: after a '+' it is a superset of the one before, after a
\* '-' a subset.
C12_TurnstileMonotone ==
    [][(result'.op = "ingest_event" /\ result'.status = "ok") =>
          LET D == IsoFormat(result'.event.day)
              before == KeysRead(activity_log, erasure_log, snapshots, D)
              after == KeysRead(activity_log', erasure_log', snapshots', D)
          IN /\ result'.event.op = "+" => before \subseteq after
             /\ result'.event.op = "-" => after \subseteq before]_vars

\* a '-' event was ingested on a day where its key was active: the day's key
\* set shrank
C12_Witness ==
    /\ result.op = "ingest_event"
    /\ result.status = "ok"
    /\ result.event.op = "-"
    /\ \E i \in RowsOfDay(IsoFormat(result.event.day)) :
          /\ i < Len(activity_log)
          /\ activity_log[i].op = "+"
          /\ activity_log[i].user_key = activity_log[Len(activity_log)].user_key

ResetClears ==
    result'.op = "reset_budget" =>
        \A d \in BudgetDays :
            month_key(d) = result'.month =>
                /\ spent_budget(releases', result'.metric, d) = 0
                /\ remaining_budget(releases', result'.metric, d,
                                    CapOf(config, result'.metric))
                      = CapOf(config, result'.metric)

\* the call that follows reset_budget(metric, month) is a release of that
\* metric for a day of that month, and the gate refused such a release when
\* the reset started
RefusedBeforeReset ==
    /\ result.op = "reset_budget"
    /\ result'.op \in ReleaseOps
    /\ MetricOf(result'.op) = result.metric
    /\ month_key(parse_day(result'.day)) = result.month
    /\ result.spent_before + EpsilonOf(config, result.metric)
          > CapOf(config, result.metric) + Tolerance

SensitivityOf(metric) ==
    IF metric = "dau" THEN (IF w_bound < 1 THEN w_bound ELSE 1) ELSE w_bound

\* the noisy value as a function of (metric, day, default_seed, base value,
\* sensitivity, epsilon, delta) alone: the base value plus the first output of
\* a generator seeded from (metric, day, default_seed), scaled from
\* (sensitivity, epsilon, delta)
NoisyValueOf(metric, day_str, seed0, base_value, sensitivity, epsilon, delta) ==
    [value |-> base_value,
     dist |-> IF delta > 0 THEN "gaussian" ELSE "laplace",
     scale |-> IF delta > 0
               THEN [delta |-> delta, sensitivity |-> sensitivity, epsilon |-> epsilon]
               ELSE [sensitivity |-> sensitivity, epsilon |-> epsilon],
     sample |-> [seed |-> [metric |-> metric, day |-> day_str, default_seed |-> seed0],
                 index |-> 1]]

\* the payload of a successful release is the function of its inputs
NoiseIsFunction ==
    (result'.op \in ReleaseOps /\ result'.status = "ok") =>
        LET m == MetricOf(result'.op)
            noisy == NoisyValueOf(m, result'.day, default_seed, result'.exact_value,
                                  SensitivityOf(m), EpsilonOf(config, m),
                                  DeltaOf(config, m))
        IN /\ result'.estimate = noisy
           /\ result'.lower_95.center = noisy
           /\ result'.upper_95.center = noisy
           /\ result'.lower_95.z = noisy.scale
           /\ result'.upper_95.z = noisy.scale

\* two successful releases in a row that agree on metric, day, base value,
\* epsilon and delta
SameInputs ==
    /\ result.op \in ReleaseOps /\ result.status = "ok"
    /\ result'.op = result.op /\ result'.status = "ok"
    /\ result'.day = result.day
    /\ result'.exact_value = result.exact_value
    /\ result'.epsilon_used = result.epsilon_used
    /\ result'.delta = result.delta

\* C16: estimate, lower_95 and upper_95 of a release are a function of (metric,
\* day, default_seed, base value, sensitivity, epsilon, delta): two releases
\* that agree on these return the same three values, whatever was released
\* before them.
C16_NoiseDeterministic ==
    [][/\ NoiseIsFunction
       /\ SameInputs => /\ result'.estimate = result.estimate
                        /\ result'.lower_95 = result.lower_95
                        /\ result'.upper_95 = result.upper_95]_vars

\* a release succeeded for a metric and day that already had a release on record
C16_Witness ==
    /\ result.op \in ReleaseOps
    /\ result.status = "ok"
    /\ \E r \in BagToSet(releases) :
          /\ r.metric = MetricOf(result.op)
          /\ r.day = result.day
          /\ CopiesIn(r, releases) >= 2

\* --------------------------------------------------------------------- C17
\* C17: ingest_event of a '-' event e records one erasure entry, pending, for
\* the user's root; its day list is metadata.days when that list is present
\* and non-empty, otherwise the days on which the user has any ledger row, in
\* ascending order, each once; e.day is appended when the list lacks it; and
\* every day of the list that has a cached snapshot is dirty when the call
\* returns.
C17_ErasureEntry ==
    [][(result'.op = "ingest_event" /\ result'.status = "ok"
            /\ result'.event.op = "-") =>
          LET e == result'.event
              D == IsoFormat(e.day)
              root == hash_user_root(e.user_id)
              entry == erasure_log'[Len(erasure_log')]
              user_days == {activity_log'[i].day :
                               i \in {j \in DOMAIN activity_log' :
                                         activity_log'[j].user_root = root}}
          IN /\ Len(erasure_log') = Len(erasure_log) + 1
             /\ SubSeq(erasure_log', 1, Len(erasure_log)) = erasure_log
             /\ entry.pending
             /\ entry.user_root = root
             /\ IF e.days # <<>>
                THEN entry.days = (IF D \in Range(e.days) THEN e.days
                                   ELSE Append(e.days, D))
                ELSE /\ Range(entry.days) = user_days
                     /\ Len(entry.days) = Cardinality(user_days)
                     /\ \A i, j \in DOMAIN entry.days :
                           i < j => parse_day(entry.days[i]) < parse_day(entry.days[j])
             /\ D \in Range(entry.days)
             /\ \A d \in Range(entry.days) \cap DOMAIN snapshots' : snapshots'[d].dirty]_vars

\* a '-' event without metadata.days for a user with a row on an earlier day
\* whose snapshot is cached
C17_Witness ==
    /\ result.op = "ingest_event"
    /\ result.status = "ok"
    /\ result.event.op = "-"
    /\ result.event.days = <<>>
    /\ erasure_log # <<>>
    /\ \E d \in Range(erasure_log[Len(erasure_log)].days) :
          /\ d # IsoFormat(result.event.day)
          /\ d \in DOMAIN snapshots

\* --------------------------------------------------------------------- C19
\* the exact MAU value of a window as a release reads it
MauRead(log, elog, snaps, end_day, window_days) ==
    Cardinality(get_mau(replay_deletions(elog, snaps).snapshots, log,
                        IsoFormat(end_day), window_days).union)

\* C19: ingest_event of an event identical to the one ingested by the call
\* just before it ('+' or '-', same user, day and metadata.days) changes no
\* day's exact DAU value and no window's exact MAU value.
C19_DuplicateIsNoOp ==
    [][(/\ result.op = "ingest_event" /\ result.status = "ok"
        /\ result'.op = "ingest_event" /\ result'.status = "ok"
        /\ result'.event = result.event) =>
          /\ \A d \in Days :
                Cardinality(KeysRead(activity_log', erasure_log', snapshots', IsoFormat(d)))
                   = Cardinality(KeysRead(activity_log, erasure_log, snapshots, IsoFormat(d)))
          /\ \A d \in Days, w \in 1..MaxWindow :
                MauRead(activity_log', erasure_log', snapshots', d, w)
                   = MauRead(activity_log, erasure_log, snapshots, d, w)]_vars

\* a '-' event was ingested twice in a row for a key that an earlier '+' row
\* of the same day had made active
C19_Witness ==
    /\ result.op = "ingest_event"
    /\ result.status = "ok"
    /\ Len(activity_log) = 3
    /\ activity_log[3] = activity_log[2]
    /\ activity_log[3].op = "-"
    /\ activity_log[1].op = "+"
    /\ activity_log[1].user_key = activity_log[3].user_key
    /\ Len(erasure_log) = 2
    /\ erasure_log[1].days = erasure_log[2].days

\* --------------------------------------------------------------------- C20
\* C20: ingest_event fails exactly when the event's op is outside {'+', '-'},
\* and the failed call leaves the activity log, the erasure log, the snapshot
\* cache with its dirty bits and the accountant as they were.
C20_InvalidOpRejected ==
    [][result'.op = "ingest_event" =>
          /\ (result'.event.op \notin {"+", "-"}) <=> (result'.status = "ValueError")
          /\ result'.status # "ok" =>
                UNCHANGED <<activity_log, erasure_log, snapshots, releases>>]_vars

\* an invalid op was rejected in a state with ledger rows, a cached snapshot
\* and a release on record
C20_Witness ==
    /\ result.op = "ingest_event"
    /\ result.status = "ValueError"
    /\ activity_log # <<>>
    /\ DOMAIN snapshots # {}
    /\ releases # EmptyBag

\* --------------------------------------------------------------------- C18
\* C18: when an ingest_event call and a get_snapshot call interleave at the
\* store and cache steps with no lock, then once both calls have returned
\* every cached snapshot with dirty = false equals the fold of its day's
\* ledger rows.
C18_NoLostInvalidation ==
    (threads.ingest.pc = "idle" /\ threads.reader.pc = "idle") =>
        \A d \in DOMAIN snapshots :
            ~snapshots[d].dirty => snapshots[d].keys = LedgerFold(d)

\* ------------------------------------------------------------------- C21
\* index of the first event of a batch whose op is neither '+' nor '-'
\* (Len + 1 when every op is valid)
FirstInvalid(events) ==
    LET bad == {i \in DOMAIN events : events[i].op \notin {"+", "-"}}
    IN IF bad = {} THEN Len(events) + 1
       ELSE CHOOSE i \in bad : \A j \in bad : i <= j

RECURSIVE IngestFirst(_, _, _, _)
\* the state after ingest_event has been called on events[1], ..., events[n]
IngestFirst(cfg, st, events, n) ==
    IF n = 0 THEN st
    ELSE ingest_event(cfg, IngestFirst(cfg, st, events, n - 1), events[n])

\* C21: ingest_batch(events) leaves the activity log, the erasure log and the
\* cache (dirty bits) as one ingest_event call per event, in order, leaves
\* them; with an invalid event in the batch it raises, every event before the
\* first invalid one is ingested and none after it is
C21_BatchIsSequence ==
    [][result'.op = "ingest_batch" =>
       \A b \in Batches(Events) :
          IngestBatch(b, MaxEvents) =>
              LET n == FirstInvalid(b) - 1
                  st == IngestFirst(config, State, b, n)
              IN /\ activity_log' = st.activity_log
                 /\ erasure_log' = st.erasure_log
                 /\ snapshots' = st.snapshots
                 /\ Len(activity_log') = Len(activity_log) + n
                 /\ result'.status = IF n = Len(b) THEN "ok" ELSE "ValueError"]_vars

\* a batch stopped at an invalid event after one event was ingested and
\* dirtied a cached snapshot
C21_Witness ==
    /\ result.op = "ingest_batch"
    /\ result.status = "ValueError"
    /\ Len(activity_log) = 1
    /\ \E d \in DOMAIN snapshots : snapshots[d].dirty

\* ------------------------------------------------------------------- C22
\* C22: every BudgetExceeded a release call raises has the fields metric
\* ('dau' or 'mau') and day (the requested day, end_day for MAU)
C22_ErrorCarriesMetricDay ==
    result.status = "BudgetExceeded" =>
        /\ {"metric", "day"} \subseteq DOMAIN result.error
        /\ result.error.metric = MetricOf(result.op)
        /\ result.error.day = result.day

\* ------------------------------------------------------------------- C23
\* the settings the mechanisms accept: epsilon > 0 and 0 <= delta < 1
ValidConfig(cfg) ==
    /\ cfg.epsilon_dau > 0
    /\ cfg.epsilon_mau > 0
    /\ cfg.delta >= 0
    /\ cfg.delta < DeltaOne

\* the day strings of a window, oldest first
WindowList(end, window) == [i \in 1..window |-> IsoFormat(end - window + i)]

C24_BudgetRemaining ==
    (result.op \in ReleaseOps /\ result.status = "ok") =>
        LET metric == MetricOf(result.op)
            day == parse_day(result.day)
            cap == CapOf(config, metric)
            rows == {r \in BagToSet(releases) :
                        r.metric = metric /\ r.period = <<result.day[1], result.day[2]>>}
            spent == SumEpsilon(releases, rows)
        IN /\ rows # {}
           /\ spent >= result.epsilon_used
           /\ result.budget_remaining = (IF cap > spent THEN cap - spent ELSE 0)
           /\ result.budget_remaining >= 0
           /\ metric = "dau" =>
                  result.budget_remaining =
                      budget_snapshot(releases, rdp_releases, "dau", day, cap, 0,
                                      RdpOrders).epsilon_remaining

\* a first DAU release that leaves 2e-9 of a 3e-9 cap, with an RDP row of the
\* metric and month in the table
C24_Witness ==
    /\ result.op = "get_daily_release"
    /\ result.status = "ok"
    /\ result.epsilon_used = 1
    /\ result.budget_remaining = 2
    /\ \E r \in BagToSet(rdp_releases) :
          r.metric = "dau" /\ r.period = <<result.day[1], result.day[2]>>

\* ------------------------------------------------------------------- C25
\* the backends the claim says are registered at least
ClaimedBackends == {"set", "kmv"}

\* C25: constructing a PipelineManager fails exactly when config.sketch.impl
\* is not a registered backend; 'set' and the default 'kmv' are registered;
\* the sketches created afterwards are of the configured backend
C25_ConstructionChecksBackend ==
    result.op = "construct" =>
        /\ ClaimedBackends \subseteq Builders
        /\ result.status = "ok" <=> result.sketch_impl \in Builders \cup ClaimedBackends
        /\ result.status = "ok" => result.returned.default_impl = result.sketch_impl

\* ------------------------------------------------------------------- C26
\* C26: union and a_not_b with an argument of another backend raise TypeError
\* and leave the receiving sketch as it was
C26_MixedBackendsRejected ==
    [][\A x \in Slots, y \in Slots :
          sketches[x].impl # sketches[y].impl =>
              /\ SkUnion(x, y) => /\ result'.status = "TypeError"
                                  /\ sketches'[x] = sketches[x]
              /\ SkANotB(x, y) => /\ result'.status = "TypeError"
                                  /\ result'.returned = None
                                  /\ sketches'[x] = sketches[x]]_vars

\* a union of a non-empty SetSketch with a non-empty KMVSketch was refused
C26_Witness ==
    /\ result.op = "union"
    /\ result.status = "TypeError"
    /\ \E x \in Slots : sketches[x].impl = "set" /\ sketches[x].keys # {}
    /\ \E y \in Slots : sketches[y].impl = "kmv" /\ sketches[y].hashes # <<>>

\* ------------------------------------------------------------------- C27
\* C27: deserialize(serialize(s), cfg) under the same configuration retains
\* what s retains (the key set of a SetSketch, the sorted hash list of a
\* KMVSketch), so it gives the same estimate, and serialize leaves s as it was
C27_SerializeRoundTrip ==
    [][\A x \in Slots :
          SkRoundTrip(x) =>
              LET s == sketches[x]
                  t == result'.returned
              IN /\ t.impl = s.impl
                 /\ s.impl = "set" => t.keys = s.keys
                 /\ s.impl = "kmv" => t.hashes = s.hashes /\ t.k = s.k
                 /\ estimate(t) = estimate(s)
                 /\ sketches'[x] = s]_vars

\* a full KMVSketch (k hashes, estimated by (k - 1) / tau) came back from the
\* round trip
C27_Witness ==
    /\ result.op = "deserialize"
    /\ result.returned.impl = "kmv"
    /\ Len(result.returned.hashes) = SketchK
    /\ \E x \in Slots : sketches[x].impl = "set" /\ Cardinality(sketches[x].keys) >= 2

\* ------------------------------------------------------------------- C28
\* the mechanism and delta the claim gives a release of the metric
ClaimedMechanism(cfg, metric) ==
    IF metric = "mau" /\ cfg.delta > 0 THEN "gaussian" ELSE "laplace"

ClaimedDelta(cfg, metric) ==
    IF metric = "mau" /\ cfg.delta > 0 THEN cfg.delta ELSE 0

AcctPeriods == {month_key(d) : d \in AcctDays}

\* C29: reset_month(metric, month) removes the release rows and the RDP rows of
\* that metric and month and no others: spent budget, release count and RDP
\* totals of every other metric or month stay, and so do the activity log, the
\* erasure log and the snapshot cache
C29_ResetTouchesOneMonth ==
    [][result'.op = "reset_budget" =>
         LET metric == result'.metric
             month == result'.month
             Hit(r) == r.metric = metric /\ r.period = month
         IN /\ \A r \in BagToSet(releases') \cup BagToSet(rdp_releases') : ~Hit(r)
            /\ \A r \in BagToSet(releases) :
                  ~Hit(r) => CopiesIn(r, releases') = CopiesIn(r, releases)
            /\ \A r \in BagToSet(rdp_releases) :
                  ~Hit(r) => CopiesIn(r, rdp_releases') = CopiesIn(r, rdp_releases)
            /\ BagToSet(releases') \subseteq BagToSet(releases)
            /\ BagToSet(rdp_releases') \subseteq BagToSet(rdp_releases)
            /\ \A m \in Metrics, d \in AcctDays :
                  <<m, month_key(d)>> # <<metric, month>> =>
                      /\ spent_budget(releases', m, d) = spent_budget(releases, m, d)
                      /\ monthly_release_count(releases', m, d)
                             = monthly_release_count(releases, m, d)
                      /\ spent_rdp(rdp_releases', m, d, RdpOrders)
                             = spent_rdp(rdp_releases, m, d, RdpOrders)
            /\ UNCHANGED <<activity_log, erasure_log, snapshots>>]_vars

\* a reset removed a release row and an RDP row of its metric and month, rows
\* of another metric or month remain, and log and cache are not empty
C29_Witness ==
    /\ result.op = "reset_budget"
    /\ result.spent_before > 0
    /\ result.rdp_before > 0
    /\ releases # EmptyBag
    /\ activity_log # <<>>
    /\ snapshots # <<>>

\* ------------------------------------------------------------------- C30
\* the cached snapshot of day d holds after the step what it held before
SameContents(d) ==
    /\ snapshots'[d].keys = snapshots[d].keys
    /\ snapshots'[d].sketch = snapshots[d].sketch

\* the step was a release that stored a snapshot built from the fold of the
\* day's ledger rows
RebuiltFromFold(d) ==
    /\ result'.op \in ReleaseOps
    /\ ~snapshots'[d].dirty
    /\ snapshots'[d].keys = FoldEvents(fetch_day_events(activity_log', d), {})
    /\ snapshots'[d].sketch = snapshots'[d].keys

C31_GetSnapshotRebuildsWhenStale ==
    [][/\ \A d \in Days :
             RaceGetSnapshotCall(d) =>
                 IF IsoFormat(d) \notin DOMAIN snapshots \/ snapshots[IsoFormat(d)].dirty
                 THEN /\ threads'.reader.pc = "events_loader"
                      /\ threads'.reader.day = IsoFormat(d)
                      /\ snapshots' = snapshots
                      /\ result' = result
                 ELSE /\ threads'.reader.pc = "idle"
                      /\ result'.op = "get_snapshot"
                      /\ result'.returned = snapshots[IsoFormat(d)]
                      /\ snapshots' = snapshots
       /\ (threads.reader.pc = "events_loader" /\ threads'.reader.pc # "events_loader") =>
             /\ threads'.reader.pc = "_build_snapshot"
             /\ threads'.reader.events = fetch_day_events(activity_log, threads.reader.day)
             /\ snapshots' = snapshots
       /\ (threads.reader.pc = "_build_snapshot" /\ threads'.reader.pc # "_build_snapshot") =>
             LET day_str == threads.reader.day
             IN /\ threads'.reader.pc = "idle"
                /\ DOMAIN snapshots' = DOMAIN snapshots \cup {day_str}
                /\ ~snapshots'[day_str].dirty
                /\ result'.returned = snapshots'[day_str]
                /\ snapshots'[day_str].keys = FoldEvents(threads.reader.events, {})
                /\ snapshots'[day_str].sketch = snapshots'[day_str].keys
                /\ \A d \in DOMAIN snapshots \ {day_str} : snapshots'[d] = snapshots[d]
       /\ (threads.ingest.pc = "mark_dirty" /\ threads'.ingest.pc # "mark_dirty"
              /\ IsoFormat(threads.ingest.event.day) \notin DOMAIN snapshots) =>
             snapshots' = snapshots
       /\ threads'.ingest # threads.ingest => DOMAIN snapshots' = DOMAIN snapshots
      ]_vars

\* a get_snapshot call stands before _build_snapshot with rows read for a day
\* whose cached snapshot is dirty, while another day has a clean cached snapshot
C31_Witness ==
    /\ threads.reader.pc = "_build_snapshot"
    /\ threads.reader.events # <<>>
    /\ threads.reader.day \in DOMAIN snapshots
    /\ snapshots[threads.reader.day].dirty
    /\ \E d \in DOMAIN snapshots : ~snapshots[d].dirty

\* --------------------------------------------------------------------- C32
\* the sum of a metric's stored RDP points of a day's month at one order
RdpTotal(rdp, metric, day, a) == spent_rdp(rdp, metric, day, PointOrders)[a]

\* C32: a log_rdp_points batch holding an order <= 1 or a negative epsilon
\* raises and persists none of its points (the table, and so spent_rdp, is
\* as before); a valid batch raises nothing and adds each of its epsilons to
\* the total of its order for the metric and month, every other total
\* staying the same.
C32_RdpBatchAllOrNothing ==
    [][result'.op = "log_rdp_points" =>
         LET pts == result'.rdp_points
             day == parse_day(result'.day)
             bad == \E a \in DOMAIN pts : a <= 1 \/ pts[a] < 0
         IN IF bad
            THEN /\ result'.status = "ValueError"
                 /\ rdp_releases' = rdp_releases
                 /\ \A m \in Metrics, d \in AcctDays, a \in PointOrders :
                       RdpTotal(rdp_releases', m, d, a) = RdpTotal(rdp_releases, m, d, a)
            ELSE /\ result'.status = "ok"
                 /\ \A m \in Metrics, d \in AcctDays, a \in PointOrders :
                       RdpTotal(rdp_releases', m, d, a) =
                           RdpTotal(rdp_releases, m, d, a)
                           + (IF m = result'.metric /\ month_key(d) = month_key(day)
                                 /\ a \in DOMAIN pts
                              THEN pts[a] ELSE 0)
      ]_vars

\* a rejected batch that held a valid point before its bad one, with rows of
\* earlier valid batches of the same metric and month summing at one order
C32_Witness ==
    /\ result.op = "log_rdp_points"
    /\ result.status = "ValueError"
    /\ \E a, b \in DOMAIN result.rdp_points :
          /\ a < b /\ a > 1 /\ result.rdp_points[a] >= 0
          /\ result.rdp_points[b] < 0
    /\ \E a \in PointOrders :
          RdpTotal(rdp_releases, result.metric, parse_day(result.day), a) >= 2

\* --------------------------------------------------------------------- C33
\* the hashes of a set of keys
HashesOf(keys) == {_hash_key(key) : key \in keys}

RECURSIVE SketchOf(_)
\* sketch(A): a fresh KMVSketch with every key of A added
SketchOf(keys) ==
    IF keys = {} THEN create("kmv")
    ELSE LET key == CHOOSE x \in keys : TRUE
         IN add(SketchOf(keys \ {key}), key)

\* C33: after any sequence of add and union calls, a KMVSketch with parameter
\* k holds exactly the min(k, n) smallest of the n distinct hashes of the keys
\* added to it or to a sketch unioned into it, strictly ascending, with
\* _hash_set equal to the list; union(sketch(A), sketch(B)) is sketch(A \cup B),
\* and union is commutative and idempotent.
C33_KmvKeepsKSmallest ==
    /\ \A x \in Slots :
          LET s == sketches[x].sketch
              all == HashesOf(sketches[x].added)
              n == Cardinality(all)
          IN /\ Len(s.hashes) = (IF s.k < n THEN s.k ELSE n)
             /\ \A i, j \in DOMAIN s.hashes : i < j => s.hashes[i] < s.hashes[j]
             /\ Range(s.hashes) \subseteq all
             /\ \A h \in all \ Range(s.hashes) :
                   \A i \in DOMAIN s.hashes : s.hashes[i] < h
             /\ s.hash_set = Range(s.hashes)
    /\ \A x, y \in Slots :
          LET sx == sketches[x].sketch
              sy == sketches[y].sketch
          IN /\ union(sx, sy).status = "ok"
             /\ union(sx, sy).sketch = SketchOf(sketches[x].added \cup sketches[y].added)
             /\ union(sx, sy).sketch = union(sy, sx).sketch
             /\ union(sx, sx).sketch = sx
             /\ union(union(sx, sy).sketch, sy).sketch = union(sx, sy).sketch

\* a full sketch that dropped a hash: more distinct hashes than k went in,
\* some of them through a union with the other sketch, which holds a hash
\* the first one does not
C33_Witness ==
    /\ result.op = "union"
    /\ \E x, y \in Slots :
          /\ x # y
          /\ Cardinality(HashesOf(sketches[x].added)) > SketchK
          /\ Len(sketches[x].sketch.hashes) = SketchK
          /\ sketches[y].added \subseteq sketches[x].added
          /\ sketches[y].added # {}
          /\ sketches[y].sketch.hash_set \ sketches[x].sketch.hash_set # {}

\* --------------------------------------------------------------------- C34
\* C34: in every state reached by sequential API calls a cached snapshot
\* with dirty = false has keys (and sketch) equal to the fold of the current
\* ledger rows of its day, and after an ingest_event or ingest_batch call no
\* day that received a row has a clean cached snapshot.
C34_IngestLeavesNoCleanStaleSnapshot ==
    /\ [](\A d \in DOMAIN snapshots :
             ~snapshots[d].dirty =>
                 /\ snapshots[d].keys = FoldEvents(fetch_day_events(activity_log, d), {})
                 /\ snapshots[d].sketch = snapshots[d].keys)
    /\ [][result'.op \in {"ingest_event", "ingest_batch"} =>
            /\ \A i \in (Len(activity_log) + 1)..Len(activity_log') :
                  LET d == activity_log'[i].day
                  IN d \in DOMAIN snapshots' => snapshots'[d].dirty
            /\ DOMAIN snapshots' = DOMAIN snapshots
            /\ \A d \in DOMAIN snapshots : snapshots'[d].keys = snapshots[d].keys
      ]_vars

\* an ingest_event has just appended a '+' row of a key to a day whose cached
\* snapshot does not hold that key (the snapshot is dirty), while the other
\* day's snapshot is clean
C34_Witness ==
    /\ result.op = "ingest_event"
    /\ result.status = "ok"
    /\ result.event.op = "+"
    /\ LET d == IsoFormat(result.event.day)
       IN /\ d \in DOMAIN snapshots
          /\ snapshots[d].dirty
          /\ activity_log[Len(activity_log)].user_key \notin snapshots[d].keys
          /\ \E d2 \in DOMAIN snapshots \ {d} : ~snapshots[d2].dirty

\* --------------------------------------------------------------------- C35
\* C35: when two release calls of one metric and month interleave between
\* the can_release check and record_release, the epsilon recorded for that
\* metric and month still sums to at most cap + 1e-9.
C35_ConcurrentSpendWithinCap ==
    \A r \in BagToSet(releases) :
        SumEpsilon(releases, RowsFor(releases, r.metric, r.period))
            <= CapOf(config, r.metric) + Tolerance

\* --------------------------------------------------------------------- C36
\* the months the budget scope can charge or read
BudgetPeriods == {month_key(d) : d \in (739555 - MaxWindow) .. (739555 + NumBudgetDays)}

\* C36: a successful get_daily_release(day) / get_mau_release(end_day, W)
\* adds exactly one row to the releases table, of the call's metric, with the
\* configured epsilon of that metric and the calendar month of day / end_day
\* as period, and spent_budget of every other (metric, month) is unchanged,
\* the earlier month of a window that spans two months included.
C36_OneRowPerRelease ==
    [][(result'.op \in ReleaseOps /\ result'.status = "ok") =>
         LET metric == MetricOf(result'.op)
             day == parse_day(result'.day)
             added == releases' (-) releases
         IN /\ releases \sqsubseteq releases'
            /\ BagCardinality(added) = 1
            /\ \A r \in BagToSet(added) :
                  /\ r.metric = metric
                  /\ r.day = result'.day
                  /\ r.period = <<result'.day[1], result'.day[2]>>
                  /\ r.epsilon = EpsilonOf(config, metric)
            /\ spent_budget(releases', metric, day)
                  = spent_budget(releases, metric, day) + EpsilonOf(config, metric)
            /\ \A m \in Metrics, p \in BudgetPeriods :
                  (m # metric \/ p # month_key(day)) =>
                      spent_period(releases', m, p) = spent_period(releases, m, p)
      ]_vars

\* a successful MAU release for 2025-11-01 over a window reaching into
\* October, with an October MAU release already in the table
C36_Witness ==
    /\ result.op = "get_mau_release"
    /\ result.status = "ok"
    /\ result.day = <<2025, 11, 1>>
    /\ result.window_days >= 2
    /\ spent_period(releases, "mau", <<2025, 10>>) > 0
    /\ spent_period(releases, "mau", <<2025, 11>>) = EpsilonOf(config, "mau")

\* --------------------------------------------------------------------- C37
\* the calls that run replay_deletions: replay_deletions itself and the releases
ReplayOps == {"replay_deletions"} \cup ReleaseOps

\* C37: an erasure entry appears only through the ingest of a '-' event, one
\* entry per '-' row, with pending = true; pending_erasures returns exactly
\* the pending entries in ascending id order; the first replay_deletions or
\* release after its creation processes it; a processed entry never becomes
\* pending again and is not among the entries a later replay handles; no
\* entry is removed or otherwise changed.
C37_ErasureLifecycle ==
    /\ [](LET rows == pending_erasures_rows(erasure_log)
          IN /\ \A i, j \in DOMAIN rows : i < j => rows[i].erasure_id < rows[j].erasure_id
             /\ {r.erasure_id : r \in Range(rows)}
                   = {i \in DOMAIN erasure_log : erasure_log[i].pending}
             /\ \A r \in Range(rows) : r.days = erasure_log[r.erasure_id].days)
    /\ [][LET new == DOMAIN erasure_log' \ DOMAIN erasure_log
              minus == {i \in (Len(activity_log) + 1)..Len(activity_log') :
                           activity_log'[i].op = "-"}
          IN /\ DOMAIN erasure_log \subseteq DOMAIN erasure_log'
             /\ \A i \in DOMAIN erasure_log :
                   /\ erasure_log'[i].user_root = erasure_log[i].user_root
                   /\ erasure_log'[i].days = erasure_log[i].days
                   /\ ~erasure_log[i].pending => ~erasure_log'[i].pending
             /\ new # {} => result'.op \in {"ingest_event", "ingest_batch"}
             /\ Cardinality(new) = Cardinality(minus)
             /\ \A i \in new :
                   /\ erasure_log'[i].pending
                   /\ erasure_log'[i].created_at \in minus
                   /\ activity_log'[erasure_log'[i].created_at].user_root
                         = erasure_log'[i].user_root
             /\ result'.op \in ReplayOps =>
                   /\ \A i \in DOMAIN erasure_log' : ~erasure_log'[i].pending
                   /\ result'.replayed = {i \in DOMAIN erasure_log : erasure_log[i].pending}
             /\ result'.op \notin ReplayOps =>
                   \A i \in DOMAIN erasure_log :
                       erasure_log'[i].pending = erasure_log[i].pending
      ]_vars

\* a replay has just processed two erasures at once while nothing is pending
C37_Witness ==
    /\ result.op \in ReplayOps
    /\ Cardinality(result.replayed) = 2
    /\ \A i \in DOMAIN erasure_log : ~erasure_log[i].pending

\* --------------------------------------------------------------------- C38
\* seq begins with pre
IsPrefix(pre, seq) == Len(pre) <= Len(seq) /\ SubSeq(seq, 1, Len(pre)) = pre

\* the day strings a call of the ledger scope can name
LedgerDayStrings == {IsoFormat(d) : d \in Days}

LedgerOps == {"ingest_event", "ingest_batch", "replay_deletions"}

\* C39: ingest_event, ingest_batch and replay_deletions leave the accountant
\* as it was: the releases and rdp_releases tables are unchanged, and so are
\* spent_budget, remaining_budget and the release count of every metric and
\* month.
C39_LedgerCallsKeepBudget ==
    [][result'.op \in LedgerOps =>
         /\ releases' = releases
         /\ rdp_releases' = rdp_releases
         /\ \A m \in Metrics, d \in BudgetDays :
               /\ spent_budget(releases', m, d) = spent_budget(releases, m, d)
               /\ remaining_budget(releases', m, d, CapOf(config, m))
                     = remaining_budget(releases, m, d, CapOf(config, m))
               /\ monthly_release_count(releases', m, d)
                     = monthly_release_count(releases, m, d)
      ]_vars

\* a '-' event has just been ingested for a day that has a release row, and
\* its erasure is pending
C39_Witness ==
    /\ result.op = "ingest_event"
    /\ result.status = "ok"
    /\ result.event.op = "-"
    /\ \E r \in BagToSet(releases) : r.day = IsoFormat(result.event.day)
    /\ pending_erasures(erasure_log) # {}

\* --------------------------------------------------------------------- C40
\* C40: after ingest_event the caller's EventRecord, the list under
\* metadata["days"] included, equals its value before the call.
C40_EventRecordUnchanged ==
    result.op = "ingest_event" => result.event_after = result.event

====
